---- MODULE Spec2Model ----
(***************************************************************************)
(* Model of the query-orchestration pipeline of the data-analysis backend: *)
(*   - CircuitBreaker and the guarded MySQL call  (core/resilience.py,     *)
(*     core/mysql.py)                                                      *)
(*   - the pure functions over SQL text           (core/mysql.py)          *)
(*   - the chat orchestrator chat_sse.gen         (api/chat.py)            *)
(* SQL texts and table names are sequences of one-character strings, so    *)
(* that the regular expressions of the source are modelled by what they    *)
(* match.                                                                  *)
(***************************************************************************)
EXTENDS Integers, Sequences, FiniteSets, TLC

(***************************************************************************)
(* Characters and text helpers                                             *)
(***************************************************************************)

LowerLetters == {"a", "b", "c", "d", "e", "f", "g", "h", "i", "j", "k", "l", "m", "n", "o", "p", "q", "r", "s", "t", "u", "v", "w", "x", "y", "z"}

LowerOf == [A |-> "a", B |-> "b", C |-> "c", D |-> "d", E |-> "e", F |-> "f", G |-> "g", H |-> "h", I |-> "i", J |-> "j", K |-> "k", L |-> "l", M |-> "m", N |-> "n", O |-> "o", P |-> "p", Q |-> "q", R |-> "r", S |-> "s", T |-> "t", U |-> "u", V |-> "v", W |-> "w", X |-> "x", Y |-> "y", Z |-> "z"]

\* the grave accent: the string syntax of TLA+ has no way to write it, so it is
\* the one character of a text that is denoted by a name
BT == "BACKTICK"

Digits == {"0", "1", "2", "3", "4", "5", "6", "7", "8", "9"}

\* re.I / str.lower(): fold one character to lower case
Lower(c) == IF c \in DOMAIN LowerOf THEN LowerOf[c] ELSE c

\* the regular-expression class \w
IsWord(c) == c \in LowerLetters \/ c \in DOMAIN LowerOf \/ c \in Digits \/ c = "_"

\* the regular-expression class \s
IsSpace(c) == c \in {" ", "\t", "\n", "\r"}

\* str.lower() of a whole text
LowerText(s) == [i \in 1..Len(s) |-> Lower(s[i])]

\* s[i:i+len(w)] == w, compared case-insensitively (w is lower case)
MatchesAt(s, i, w) ==
    /\ i >= 1
    /\ i + Len(w) - 1 <= Len(s)
    /\ \A k \in 1..Len(w) : Lower(s[i + k - 1]) = w[k]

\* the zero-width assertion \b between positions i-1 and i of s
WordBoundary(s, i) ==
    LET before == i > 1 /\ i - 1 <= Len(s) /\ IsWord(s[i - 1])
        after  == i >= 1 /\ i <= Len(s) /\ IsWord(s[i])
    IN  before # after

\* "sub in s" of Python, on an already lower-cased text
Contains(s, sub) == \E i \in 1..Len(s) : MatchesAt(s, i, sub)

\* str.startswith
StartsWith(s, prefix) ==
    /\ Len(prefix) <= Len(s)
    /\ \A k \in 1..Len(prefix) : s[k] = prefix[k]

\* first index >= i of s whose character is not white space (Len(s)+1 if none)
RECURSIVE SkipSpaces(_, _)
SkipSpaces(s, i) ==
    IF i <= Len(s) /\ IsSpace(s[i]) THEN SkipSpaces(s, i + 1) ELSE i

\* first index >= i of s whose character is not a word character
RECURSIVE WordRunEnd(_, _)
WordRunEnd(s, i) ==
    IF i <= Len(s) /\ IsWord(s[i]) THEN WordRunEnd(s, i + 1) ELSE i

(***************************************************************************)
(* validate_readonly_sql  (core/mysql.py)                                  *)
(***************************************************************************)

\* the alternatives of _GOOD_PREFIX
GoodWords == { <<"s", "e", "l", "e", "c", "t">>, <<"w", "i", "t", "h">> }

\* the alternatives of _BAD_SQL
BadWords == {
    <<"i", "n", "s", "e", "r", "t">>,
    <<"u", "p", "d", "a", "t", "e">>,
    <<"d", "e", "l", "e", "t", "e">>,
    <<"d", "r", "o", "p">>,
    <<"t", "r", "u", "n", "c", "a", "t", "e">>,
    <<"a", "l", "t", "e", "r">>,
    <<"c", "r", "e", "a", "t", "e">>,
    <<"r", "e", "p", "l", "a", "c", "e">>,
    <<"g", "r", "a", "n", "t">>,
    <<"r", "e", "v", "o", "k", "e">> }

\* _GOOD_PREFIX, were it written without \s*
GOOD_PREFIX_nospace(s) ==
    \E w \in GoodWords :
        /\ MatchesAt(s, 1, w)
        /\ WordBoundary(s, 1 + Len(w))

\* _GOOD_PREFIX.search(sql):  ^\s*(SELECT|WITH)\b  with re.I
GOOD_PREFIX(s) ==
    LET p == SkipSpaces(s, 1)
    IN  \E w \in GoodWords :
            /\ MatchesAt(s, p, w)
            /\ WordBoundary(s, p + Len(w))

\* _BAD_SQL.search(sql):  \b(INSERT|...|REVOKE)\b  with re.I
BAD_SQL(s) ==
    \E i \in 1..Len(s) : \E w \in BadWords :
        /\ WordBoundary(s, i)
        /\ MatchesAt(s, i, w)
        /\ WordBoundary(s, i + Len(w))

\* TRUE iff validate_readonly_sql(sql) returns without raising ValueError
validate_readonly_sql(s) == GOOD_PREFIX(s) /\ ~BAD_SQL(s)

(***************************************************************************)
(* extract_table_names  (core/mysql.py)                                    *)
(***************************************************************************)

KwFrom == <<"f", "r", "o", "m">>
KwJoin == <<"j", "o", "i", "n">>

\* the class of grave accent, double quote, backslash and "[" that may open an
\* identifier
OpenQuote == {BT, "\"", "\\", "["}

\* the class of grave accent, double quote and backslash that follows the word
\* characters: the first "]" written after them in the pattern closes the
\* class, so the class is not optional and the "?" applies to a literal "]"
CloseQuote == {BT, "\"", "\\"}

\* one identifier part (optional opening quote, word characters, closing
\* quote, optional "]") matched at position p:
\* the position after it, or 0 when it does not match there
IdentPartEnd(s, p) ==
    LET p1 == IF p <= Len(s) /\ s[p] \in OpenQuote THEN p + 1 ELSE p
        p2 == WordRunEnd(s, p1)
    IN  IF p2 > p1 /\ p2 <= Len(s) /\ s[p2] \in CloseQuote
        THEN IF p2 + 1 <= Len(s) /\ s[p2 + 1] = "]" THEN p2 + 2 ELSE p2 + 1
        ELSE 0

\* a pattern that steps over a parenthesised group after the keyword and
\* matches what follows it
TableRefAt_skipparen(s, i) ==
    LET kw == WordBoundary(s, i) /\ (MatchesAt(s, i, KwFrom) \/ MatchesAt(s, i, KwJoin))
        p0 == SkipSpaces(s, i + 4)
        closes == { k \in (p0 + 1)..Len(s) : s[k] = ")" }
        p  == IF p0 <= Len(s) /\ s[p0] = "(" /\ closes # {}
              THEN SkipSpaces(s, (CHOOSE k \in closes : \A j \in closes : k <= j) + 1)
              ELSE p0
        e1 == IF kw /\ p0 > i + 4 THEN IdentPartEnd(s, p) ELSE 0
        e2 == IF e1 > 0 /\ e1 <= Len(s) /\ s[e1] = "." THEN IdentPartEnd(s, e1 + 1) ELSE 0
    IN  [from |-> p, to |-> IF e1 = 0 THEN 0 ELSE IF e2 > 0 THEN e2 ELSE e1]

\* _TABLE_REF_RE matched at position i: [from |-> start of group 2,
\* to |-> position after the match], or to = 0 when there is no match at i.
\* Group 2 opens with a character of OpenQuote or a word character, so it
\* never opens with "(" and the test of lines 409-410 never skips a match
TableRefAt(s, i) ==
    LET kw == WordBoundary(s, i) /\ (MatchesAt(s, i, KwFrom) \/ MatchesAt(s, i, KwJoin))
        p  == SkipSpaces(s, i + 4)
        e1 == IF kw /\ p > i + 4 THEN IdentPartEnd(s, p) ELSE 0
        e2 == IF e1 > 0 /\ e1 <= Len(s) /\ s[e1] = "." THEN IdentPartEnd(s, e1 + 1) ELSE 0
    IN  [from |-> p, to |-> IF e1 = 0 THEN 0 ELSE IF e2 > 0 THEN e2 ELSE e1]

StripChars == {BT, "\"", "[", "]"}

\* ident.strip(...) of the grave accent, the double quote, "[" and "]"
RECURSIVE StripQuotes(_)
StripQuotes(t) ==
    IF t = <<>> THEN t
    ELSE IF Head(t) \in StripChars THEN StripQuotes(Tail(t))
    ELSE IF t[Len(t)] \in StripChars THEN StripQuotes(SubSeq(t, 1, Len(t) - 1))
    ELSE t

\* ident.split(".")[-1]
RECURSIVE LastSegment(_)
LastSegment(t) ==
    IF \E k \in 1..Len(t) : t[k] = "."
    THEN LastSegment(SubSeq(t, (CHOOSE k \in 1..Len(t) : t[k] = ".") + 1, Len(t)))
    ELSE t

\* the loop body of extract_table_names for one match m.group(2)
TableIdent(g) == LastSegment(StripQuotes(g))

\* finditer from position i on: the names of the successive matches
RECURSIVE ScanTableRefs(_, _)
ScanTableRefs(s, i) ==
    IF i > Len(s) THEN <<>>
    ELSE LET m == TableRefAt(s, i)
         IN  IF m.to = 0 THEN ScanTableRefs(s, i + 1)
             ELSE <<TableIdent(SubSeq(s, m.from, m.to - 1))>> \o ScanTableRefs(s, m.to)

extract_table_names(s) == ScanTableRefs(s, 1)

\* set(extract_table_names(sql))
used_tables(s) == { extract_table_names(s)[k] : k \in 1..Len(extract_table_names(s)) }

(***************************************************************************)
(* Settings  (core/config.py) and the bounds of the model                  *)
(***************************************************************************)

MAX_ROWS == 500
MAX_SQL_RETRY == 2
MYSQL_MAX_RETRIES == 1
MYSQL_CB_FAILURES == 3
MYSQL_CB_RECOVERY_SECONDS == 30
LLM_MAX_RETRIES == 2

\* the clock advances in steps of TickStep seconds, up to MaxTime
TickStep == 15
MaxTime == 60
\* no more than MaxFailures failures are recorded in a row
MaxFailures == 4

Max(a, b) == IF a >= b THEN a ELSE b
Min(a, b) == IF a <= b THEN a ELSE b

(***************************************************************************)
(* CircuitBreaker  (core/resilience.py)                                    *)
(***************************************************************************)

\* CircuitBreaker.__init__: the two parameters are clamped to at least 1
failure_threshold == Max(1, MYSQL_CB_FAILURES)
recovery_timeout_s == Max(1, MYSQL_CB_RECOVERY_SECONDS)

\* the breaker _mysql_breaker as constructed at import time
NewBreaker == [state |-> "closed", failure_count |-> 0, last_failure_ts |-> 0]

\* check, were it to admit the call after the timeout without leaving open
check_stuck(b, t) ==
    IF b.state # "open" THEN [cb |-> b, raised |-> FALSE]
    ELSE IF (t - b.last_failure_ts) >= recovery_timeout_s
         THEN [cb |-> b, raised |-> FALSE]
         ELSE [cb |-> b, raised |-> TRUE]

\* CircuitBreaker.check at time t: the breaker afterwards, and whether
\* CircuitOpenError is raised
check(b, t) ==
    IF b.state # "open" THEN [cb |-> b, raised |-> FALSE]
    ELSE IF (t - b.last_failure_ts) >= recovery_timeout_s
         THEN [cb |-> [b EXCEPT !.state = "half_open"], raised |-> FALSE]
         ELSE [cb |-> b, raised |-> TRUE]

\* record_success, were it to leave the count as it is
record_success_keep(b) == [b EXCEPT !.state = "closed"]

\* CircuitBreaker.record_success
record_success(b) == [b EXCEPT !.failure_count = 0, !.state = "closed"]

\* record_failure, were the count compared with >
record_failure_gt(b, t) ==
    LET n == b.failure_count + 1
    IN  [state |-> IF n > failure_threshold THEN "open" ELSE b.state,
         failure_count |-> n,
         last_failure_ts |-> t]

\* CircuitBreaker.record_failure at time t
record_failure(b, t) ==
    LET n == b.failure_count + 1
    IN  [state |-> IF n >= failure_threshold THEN "open" ELSE b.state,
         failure_count |-> n,
         last_failure_ts |-> t]

(***************************************************************************)
(* async_retry  (core/resilience.py) as used by _with_mysql_retry          *)
(***************************************************************************)

\* what one invocation of op() can do: return, raise an error that
\* _is_retryable_mysql accepts, raise one that it rejects
OpOutcomes == {"ok", "retryable", "fatal"}

\* async_retry, were the attempt compared with >
async_retry_gt(att, outcome) ==
    IF outcome = "ok" THEN "return"
    ELSE IF outcome = "fatal" THEN "raise"
    ELSE IF att > MYSQL_MAX_RETRIES THEN "raise"
    ELSE "again"

\* one iteration of the loop of async_retry, attempt att, with that outcome:
\* "return" the result, "raise" the error, or sleep and go "again"
async_retry(att, outcome) ==
    IF outcome = "ok" THEN "return"
    ELSE IF outcome = "fatal" THEN "raise"
    ELSE IF att >= MYSQL_MAX_RETRIES THEN "raise"
    ELSE "again"

(***************************************************************************)
(* The data of a chat session                                              *)
(***************************************************************************)

\* table names
TA == <<"a">>
TB == <<"b">>
TD == <<"d">>
TU == <<"u">>
TTmp == <<"t", "m", "p", "_", "x">>
TmpPrefix == <<"t", "m", "p", "_">>

\* what list_tables returns (the base tables of the live catalog) and the
\* tables list_file_uploads returns for the requesting user
BaseTables == {TA, TB, TTmp}
UploadTables == {TU}

\* the values of req.allowed_tables a request is sent with
RequestedChoices == { {}, {TA}, {TA, TD}, {TTmp} }

\* SQL texts the generation collaborator answers with
SqlAllowed == <<"s", "e", "l", "e", "c", "t", " ", "1", " ", "f", "r", "o", "m", " ", BT, "a", BT>>
SqlDisallowed == <<"s", "e", "l", "e", "c", "t", " ", "1", " ", "f", "r", "o", "m", " ", BT, "a", BT, " ", "j", "o", "i", "n", " ", BT, "d", BT>>
SqlWrite == <<"d", "e", "l", "e", "t", "e", " ", "f", "r", "o", "m", " ", "d">>
SqlPool == {SqlAllowed, SqlDisallowed, SqlWrite}

\* used_tables and validate_readonly_sql of the texts of the pool, computed
\* once
PoolTables == [t \in SqlPool |-> used_tables(t)]
PoolReadOnly == [t \in SqlPool |-> validate_readonly_sql(t)]

\* line 144: set(extract_table_names(sql))
UsedTables(s) == IF s \in SqlPool THEN PoolTables[s] ELSE used_tables(s)

\* run_sql, were it to skip the validation
IsReadOnly_any(s) == TRUE

\* mysql.py line 185: validate_readonly_sql(sql) does not raise
IsReadOnly(s) == IF s \in SqlPool THEN PoolReadOnly[s] ELSE validate_readonly_sql(s)

\* sizes of the result set of a query in the database
ResultSizes == {0, 600}

\* analyze_stream yields at most MaxChunks chunks
MaxChunks == 1

\* the other tasks of the process that call the database through
\* _with_mysql_retry
Callers == {"c1", "c2"}
Session == "session"

VARIABLES
    breaker,        \* _mysql_breaker
    now,            \* time.time()
    cpc,            \* per caller: "idle" or "retrying" (inside async_retry)
    catt,           \* per caller: attempt of async_retry
    last_op,        \* history: the last operation on the breaker
    fail_run,       \* history: record_failure calls since the last record_success
    probes,         \* history: tasks in flight that check() admitted half_open
    pc,             \* position of gen()
    req_tables,     \* req.allowed_tables
    events,         \* the events yielded so far
    sql,            \* gen: sql
    allowed_tables, \* gen: allowed_tables
    attempt,        \* gen: attempt
    last_err,       \* gen: last_err ("none" for None)
    att,            \* attempt of async_retry inside the session's database call
    rows,           \* gen: len(rows)
    slow,           \* gen: slow
    chunks,         \* gen: len(analysis_parts)
    check_log,      \* history: evaluations of the allowlist check
    run_log,        \* history: calls of run_sql
    ret_log,        \* history: calls of run_sql that returned
    gen_log,        \* history: calls of generate_sql
    audit_log,      \* history: calls of add_sql_audit
    artifact_log,   \* history: calls of add_message_artifact
    fail_log,       \* history: the stages that failed, with the cause
    fail_ds,        \* history: the datasources of the failures counted in the breaker
    cops,           \* history, per caller: the outcomes of op() in its call
    cres,           \* history, per caller: how its call ended
    chat_breaker,   \* _chat_breaker
    spc,            \* position of chat_stream
    s_attempt,      \* chat_stream: attempt
    yielded,        \* chat_stream: yielded
    stream_ops,     \* history: the operations of the call of chat_stream on its breaker
    stmt,           \* the argument of validate_readonly_sql and extract_table_names
    verdict,        \* what validate_readonly_sql did with stmt
    extracted,      \* whether extract_table_names has returned
    names,          \* what extract_table_names returned for stmt
    catalog,        \* per datasource: the live catalog, table -> comment, type, columns
    snapshots,      \* per datasource: the stored schema snapshot
    change_logs,    \* per datasource: the schema change records
    index_docs,     \* per datasource: the schema documents of its retrieval index
    mclock,         \* _now(), in hours
    mruns,          \* how often the process has started
    mqueue,         \* run_schema_check: the datasources still to check
    last_check,     \* history: what the last _check_one_datasource did
    embed_breaker,  \* _embed_breaker
    gpc,            \* per client function: "idle" or "retrying" (inside async_retry)
    gatt,           \* per client function: attempt of async_retry
    gres,           \* history, per client function: how its last call ended
    client          \* which of the guarded functions the process calls

breakerVars == <<breaker, last_op, fail_run, probes, fail_ds>>
callerVars == <<cpc, catt, cops, cres>>
streamVars == <<chat_breaker, spc, s_attempt, yielded, stream_ops>>
textVars == <<stmt, verdict, extracted, names>>
\* what the database calls and the chat session never touch
monitorVars == <<catalog, snapshots, change_logs, index_docs, mclock, mruns, mqueue, last_check>>
guardVars == <<embed_breaker, gpc, gatt, gres, client>>
sideVars == <<streamVars, textVars, monitorVars, guardVars>>
sessionVars == <<pc, req_tables, events, sql, allowed_tables, attempt, last_err, att,
                 rows, slow, chunks, check_log, run_log, ret_log, gen_log, audit_log, artifact_log, fail_log>>
vars == <<breaker, now, cpc, catt, last_op, fail_run, probes, pc, req_tables, events,
          sql, allowed_tables, attempt, last_err, att, rows, slow, chunks, check_log,
          run_log, ret_log, gen_log, audit_log, artifact_log, fail_log, fail_ds, cops, cres,
          chat_breaker, spc, s_attempt, yielded, stream_ops, stmt, verdict, extracted, names,
          catalog, snapshots, change_logs, index_docs, mclock, mruns, mqueue, last_check,
          embed_breaker, gpc, gatt, gres, client>>

(***************************************************************************)
(* Events  (core/sse.py: sse_event, as called by gen)                      *)
(***************************************************************************)

NoEvent == [event |-> "", stage |-> "", where |-> "", attempt |-> -1, sql |-> <<>>,
            tables |-> {}, ok |-> FALSE, note |-> ""]

EvPlain(name) == [NoEvent EXCEPT !.event = name]
EvStatus(stage) == [NoEvent EXCEPT !.event = "status", !.stage = stage]
\* the status of the execution, were it to count the attempts from 1
EvStatusExec_next(k) == [NoEvent EXCEPT !.event = "status", !.stage = "sql_execution", !.attempt = k + 1]

EvStatusExec(k) == [NoEvent EXCEPT !.event = "status", !.stage = "sql_execution", !.attempt = k]
EvError(where, tables) == [NoEvent EXCEPT !.event = "error", !.where = where, !.tables = tables]
EvSql(text, note) == [NoEvent EXCEPT !.event = "sql", !.sql = text, !.note = note]
EvDone(ok) == [NoEvent EXCEPT !.event = "done", !.ok = ok]

(***************************************************************************)
(* Operations on the breaker, with their history                           *)
(***************************************************************************)

\* run_sql(..., cache_key=ds_id): the datasource each task queries; the
\* breaker every one of them goes through is the one _mysql_breaker
cache_key == [c1 |-> "default", c2 |-> "other", session |-> "default"]

\* the record of one operation on the breaker: the task, the state and the
\* last failure time before it, the time of the call, whether it raised
NoOp == [op |-> "none", who |-> "", raised |-> FALSE, pre_state |-> "closed", pre_ts |-> 0,
         at |-> 0]

\* _mysql_breaker.check() by task p
DoCheck(p) ==
    LET r == check(breaker, now)
    IN  /\ breaker' = r.cb
        /\ last_op' = [op |-> "check", who |-> p, raised |-> r.raised, pre_state |-> breaker.state,
                     pre_ts |-> breaker.last_failure_ts, at |-> now]
        /\ probes' = IF ~r.raised /\ r.cb.state = "half_open" THEN probes \cup {p} ELSE probes
        /\ UNCHANGED <<fail_run, fail_ds>>

\* _mysql_breaker.record_success() by task p
DoRecordSuccess(p) ==
    /\ breaker' = record_success(breaker)
    /\ last_op' = [op |-> "record_success", who |-> p, raised |-> FALSE, pre_state |-> breaker.state,
                     pre_ts |-> breaker.last_failure_ts, at |-> now]
    /\ probes' = probes \ {p}
    /\ fail_run' = 0
    /\ fail_ds' = {}

\* the report of a failure, were it to keep the time of the failure before
DoRecordFailure_stale(p) ==
    /\ breaker' = record_failure(breaker, breaker.last_failure_ts)
    /\ last_op' = [op |-> "record_failure", who |-> p, raised |-> FALSE, pre_state |-> breaker.state,
                     pre_ts |-> breaker.last_failure_ts, at |-> now]
    /\ probes' = probes \ {p}
    /\ fail_run' = fail_run + 1
    /\ fail_ds' = fail_ds \cup {cache_key[p]}

\* _mysql_breaker.record_failure() by task p
DoRecordFailure(p) ==
    /\ breaker' = record_failure(breaker, now)
    /\ last_op' = [op |-> "record_failure", who |-> p, raised |-> FALSE, pre_state |-> breaker.state,
                     pre_ts |-> breaker.last_failure_ts, at |-> now]
    /\ probes' = probes \ {p}
    /\ fail_run' = fail_run + 1
    /\ fail_ds' = fail_ds \cup {cache_key[p]}

\* the outcomes op() may have now: a failure is recorded only below MaxFailures
Allowed(outcome) == outcome = "ok" \/ fail_run < MaxFailures

(***************************************************************************)
(* _with_mysql_retry called by another task  (core/mysql.py)               *)
(***************************************************************************)

\* _with_mysql_retry, were it to go on into async_retry after check() raised
CallerCheck_proceed(c) ==
    /\ cpc[c] = "idle"
    /\ DoCheck(c)
    /\ cops' = [cops EXCEPT ![c] = <<>>]
    /\ cres' = [cres EXCEPT ![c] = IF check(breaker, now).raised THEN "circuit_open"
                                   ELSE "running"]
    /\ cpc' = [cpc EXCEPT ![c] = "retrying"]
    /\ catt' = [catt EXCEPT ![c] = 0]
    /\ UNCHANGED <<now, sideVars, sessionVars>>

\* _mysql_breaker.check(), the first statement of _with_mysql_retry: when it
\* raises, CircuitOpenError leaves _with_mysql_retry at once
CallerCheck(c) ==
    /\ cpc[c] = "idle"
    /\ DoCheck(c)
    /\ cops' = [cops EXCEPT ![c] = <<>>]
    /\ IF check(breaker, now).raised
       THEN /\ cres' = [cres EXCEPT ![c] = "circuit_open"]
            /\ UNCHANGED <<cpc, catt>>
       ELSE /\ cres' = [cres EXCEPT ![c] = "running"]
            /\ cpc' = [cpc EXCEPT ![c] = "retrying"]
            /\ catt' = [catt EXCEPT ![c] = 0]
    /\ UNCHANGED <<now, sideVars, sessionVars>>

\* one invocation of op() inside async_retry and, when the loop is left,
\* the report to the breaker
CallerAttempt(c) ==
    /\ cpc[c] = "retrying"
    /\ \E outcome \in OpOutcomes :
        /\ Allowed(outcome)
        /\ cops' = [cops EXCEPT ![c] = Append(cops[c], outcome)]
        /\ LET step == async_retry(catt[c], outcome)
           IN  \/ /\ step = "again"
                  /\ catt' = [catt EXCEPT ![c] = catt[c] + 1]
                  /\ UNCHANGED <<cpc, cres, breakerVars>>
               \/ /\ step = "return"
                  /\ DoRecordSuccess(c)
                  /\ cpc' = [cpc EXCEPT ![c] = "idle"]
                  /\ cres' = [cres EXCEPT ![c] = "return"]
                  /\ UNCHANGED catt
               \/ /\ step = "raise"
                  /\ DoRecordFailure(c)
                  /\ cpc' = [cpc EXCEPT ![c] = "idle"]
                  /\ cres' = [cres EXCEPT ![c] = "raise"]
                  /\ UNCHANGED catt
    /\ UNCHANGED <<now, sideVars, sessionVars>>

\* time passes
Tick ==
    /\ now + TickStep <= MaxTime
    /\ now' = now + TickStep
    /\ UNCHANGED <<breakerVars, callerVars, sessionVars, sideVars>>

(***************************************************************************)
(* chat_sse.gen  (api/chat.py): one chat session                           *)
(* A step runs from one await to the next.  An exception that no handler   *)
(* of gen catches ends the generator: pc = "aborted", nothing more is      *)
(* yielded.  A return after done ends it with pc = "done".                 *)
(***************************************************************************)

Emit(es) == events' = events \o es

\* the stage named where has failed for that cause
Failed(where, cause) == fail_log' = Append(fail_log, [where |-> where, cause |-> cause])

sessionRest == <<req_tables, sql, allowed_tables, attempt, last_err, att, rows, slow, chunks,
                 check_log, run_log, ret_log, gen_log, audit_log, artifact_log, fail_log>>

\* lines 67-69: upsert_conversation, add_message, yield message
StoreUserMessage ==
    /\ pc = "start"
    /\ \/ /\ Emit(<<EvPlain("message")>>)
          /\ pc' = "history"
       \/ /\ pc' = "aborted"
          /\ UNCHANGED events
    /\ UNCHANGED <<now, sideVars, breakerVars, callerVars, sessionRest>>

\* lines 70-81: get_conversation, upsert_conversation (title), get_messages,
\* yield status schema_retrieval
LoadHistory ==
    /\ pc = "history"
    /\ \/ /\ Emit(<<EvStatus("schema_retrieval")>>)
          /\ pc' = "resolve_datasource"
       \/ /\ pc' = "aborted"
          /\ UNCHANGED events
    /\ UNCHANGED <<now, sideVars, breakerVars, callerVars, sessionRest>>

\* lines 82-84: resolve_datasource returns a complete config, or it raises
\* RuntimeError, or the config is incomplete and HTTPException is raised
ResolveDatasource ==
    /\ pc = "resolve_datasource"
    /\ pc' \in {"list_tables", "aborted"}
    /\ UNCHANGED <<now, sideVars, breakerVars, callerVars, events, sessionRest>>

\* the except clause of lines 88-91
ListTablesFailed(cause) ==
    /\ Failed("schema_tables", cause)
    /\ Emit(<<EvError("schema_tables", {}), EvDone(FALSE)>>)
    /\ pc' = "done"

\* line 87: list_tables enters _with_mysql_retry, which calls check()
ListTablesCheck ==
    /\ pc = "list_tables"
    /\ DoCheck(Session)
    /\ IF check(breaker, now).raised
       THEN /\ ListTablesFailed("circuit_open")
            /\ UNCHANGED att
       ELSE /\ pc' = "list_tables_op"
            /\ att' = 0
            /\ UNCHANGED <<events, fail_log>>
    /\ UNCHANGED <<now, sideVars, callerVars, req_tables, sql, allowed_tables, attempt, last_err, rows,
                   slow, chunks, check_log, run_log, ret_log, gen_log, audit_log, artifact_log>>

\* line 87: one invocation of the catalog query inside async_retry
ListTablesOp ==
    /\ pc = "list_tables_op"
    /\ \E outcome \in OpOutcomes :
        /\ Allowed(outcome)
        /\ LET step == async_retry(att, outcome)
           IN  \/ /\ step = "again"
                  /\ att' = att + 1
                  /\ UNCHANGED <<pc, events, fail_log, breakerVars>>
               \/ /\ step = "return"
                  /\ DoRecordSuccess(Session)
                  /\ pc' = "scope"
                  /\ UNCHANGED <<att, events, fail_log>>
               \/ /\ step = "raise"
                  /\ DoRecordFailure(Session)
                  /\ ListTablesFailed(outcome)
                  /\ UNCHANGED att
    /\ UNCHANGED <<now, sideVars, callerVars, req_tables, sql, allowed_tables, attempt, last_err, rows,
                   slow, chunks, check_log, run_log, ret_log, gen_log, audit_log, artifact_log>>

\* line 94
\* the tmp_ filter left out
available_tables_all == BaseTables \cup UploadTables

available_tables == { t \in BaseTables : ~StartsWith(t, TmpPrefix) } \cup UploadTables

\* line 96: the table names of the request are never empty texts
requested_tables == { t \in req_tables : t # <<>> }

\* lines 92-113: list_file_uploads, then the scope of the request
ResolveScope ==
    /\ pc = "scope"
    /\ \/ /\ requested_tables # {}
          /\ requested_tables \ available_tables # {}
          /\ Failed("scope_validation", "scope")
          /\ Emit(<<EvError("scope_validation", requested_tables \ available_tables),
                    EvDone(FALSE)>>)
          /\ pc' = "done"
          /\ UNCHANGED allowed_tables
       \/ /\ requested_tables # {}
          /\ requested_tables \ available_tables = {}
          /\ allowed_tables' = requested_tables
          /\ pc' = "schema_context"
          /\ UNCHANGED <<events, fail_log>>
       \/ /\ requested_tables = {}
          /\ allowed_tables' = available_tables
          /\ pc' = "schema_context"
          /\ UNCHANGED <<events, fail_log>>
       \/ /\ pc' = "aborted"
          /\ UNCHANGED <<events, allowed_tables, fail_log>>
    /\ UNCHANGED <<now, sideVars, breakerVars, callerVars, req_tables, sql, attempt, last_err, att, rows,
                   slow, chunks, check_log, run_log, ret_log, gen_log, audit_log, artifact_log>>

\* lines 115-117: build_schema_context (a search of the retrieval index, which
\* may raise), yield status sql_generation
BuildSchemaContext ==
    /\ pc = "schema_context"
    /\ \/ /\ Emit(<<EvStatus("sql_generation")>>)
          /\ pc' = "generate"
       \/ /\ pc' = "aborted"
          /\ UNCHANGED events
    /\ UNCHANGED <<now, sideVars, breakerVars, callerVars, sessionRest>>

\* the record of one call of generate_sql: the attempt it is made in, the
\* value of last_err it is made with, and what it did: return a text ("ok"),
\* raise CircuitOpenError ("circuit_open"), raise another exception ("error":
\* an HTTP error after the retries, a malformed answer, a TypeError of the call)
GenLog(kind, outcome) ==
    Append(gen_log, [kind |-> kind, attempt |-> attempt, after |-> last_err,
                     outcome |-> outcome])

\* lines 118-130: the first generate_sql, yield sql
GenerateSql ==
    /\ pc = "generate"
    /\ \/ \E text \in SqlPool :
            /\ sql' = text
            /\ Emit(<<EvSql(text, "")>>)
            /\ pc' = "explain"
            /\ gen_log' = GenLog("initial", "ok")
            /\ UNCHANGED fail_log
       \/ /\ Failed("llm_sql", "circuit_open")
          /\ Emit(<<EvError("llm_sql", {}), EvDone(FALSE)>>)
          /\ pc' = "done"
          /\ gen_log' = GenLog("initial", "circuit_open")
          /\ UNCHANGED sql
       \/ /\ Failed("llm_sql", "error")
          /\ pc' = "aborted"
          /\ gen_log' = GenLog("initial", "error")
          /\ UNCHANGED <<sql, events>>
    /\ UNCHANGED <<now, sideVars, breakerVars, callerVars, req_tables, allowed_tables, attempt, last_err,
                   att, rows, slow, chunks, check_log, run_log, ret_log, audit_log, artifact_log>>

\* lines 131-141: explain_sql catches every exception and returns "" then;
\* the loop starts with attempt 0
ExplainSql ==
    /\ pc = "explain"
    /\ \/ Emit(<<EvPlain("sql_explain")>>)
       \/ UNCHANGED events
    /\ attempt' = 0
    /\ last_err' = "none"
    /\ pc' = "allowlist"
    /\ UNCHANGED <<now, sideVars, breakerVars, callerVars, req_tables, sql, allowed_tables, att, rows,
                   slow, chunks, check_log, run_log, ret_log, gen_log, audit_log, artifact_log,
                   fail_log>>

\* the allowlist condition, were it to accept a text as soon as one of its
\* tables is allowed
allowlist_ok_any(s, allowed) == UsedTables(s) = {} \/ UsedTables(s) \cap allowed # {}

\* line 145: the allowlist condition on the text s
allowlist_ok(s, allowed) == ~(UsedTables(s) # {} /\ ~(UsedTables(s) \subseteq allowed))

\* the names listed in the error event, were they all the names of the text
disallowed_tables_all(s, allowed) == UsedTables(s)

\* line 153: the names listed in the error event
disallowed_tables(s, allowed) == UsedTables(s) \ allowed

\* lines 144-157: the allowlist check of one attempt; yield status
\* sql_execution, or yield error and leave the loop
AllowlistCheck ==
    /\ pc = "allowlist"
    /\ check_log' = Append(check_log, [attempt |-> attempt, sql |-> sql,
                                        passed |-> allowlist_ok(sql, allowed_tables)])
    /\ IF allowlist_ok(sql, allowed_tables)
       THEN /\ Emit(<<EvStatusExec(attempt)>>)
            /\ pc' = "run_sql"
            /\ UNCHANGED <<last_err, fail_log>>
       ELSE /\ last_err' = "allowlist"
            /\ Failed("sql_allowlist", "allowlist")
            /\ Emit(<<EvError("sql_allowlist", disallowed_tables(sql, allowed_tables))>>)
            /\ pc' = "after_loop"
    /\ UNCHANGED <<now, sideVars, breakerVars, callerVars, req_tables, sql, allowed_tables, attempt, att,
                   rows, slow, chunks, run_log, ret_log, gen_log, audit_log, artifact_log>>

\* the handler of CircuitOpenError, were it to go on to the repair as the
\* handler of the other exceptions does
OnCircuitOpen_repair ==
    /\ last_err' = "circuit_open"
    /\ Failed("sql_execution", "circuit_open")
    /\ Emit(<<EvError("sql_execution", {})>>)
    /\ pc' = IF attempt >= MAX_SQL_RETRY THEN "after_loop" ELSE "repair"

\* lines 163-166: except CircuitOpenError
OnCircuitOpen ==
    /\ last_err' = "circuit_open"
    /\ Failed("sql_execution", "circuit_open")
    /\ Emit(<<EvError("sql_execution", {})>>)
    /\ pc' = "after_loop"

\* the handler of the other exceptions, were the budget compared with >
OnExecutionError_gt(cause) ==
    /\ last_err' = "sql_error"
    /\ Failed("sql_execution", cause)
    /\ Emit(<<EvError("sql_execution", {})>>)
    /\ pc' = IF attempt > MAX_SQL_RETRY THEN "after_loop" ELSE "repair"

\* lines 167-171: except Exception, up to the decision to repair
OnExecutionError(cause) ==
    /\ last_err' = "sql_error"
    /\ Failed("sql_execution", cause)
    /\ Emit(<<EvError("sql_execution", {})>>)
    /\ pc' = IF attempt >= MAX_SQL_RETRY THEN "after_loop" ELSE "repair"

\* line 159: run_sql validates the text and enters _with_mysql_retry, which
\* calls check()
RunSqlCheck ==
    /\ pc = "run_sql"
    /\ run_log' = Append(run_log, [attempt |-> attempt, sql |-> sql])
    /\ IF ~IsReadOnly(sql)
       THEN /\ OnExecutionError("validation")
            /\ UNCHANGED <<breakerVars, att>>
       ELSE /\ DoCheck(Session)
            /\ IF check(breaker, now).raised
               THEN /\ OnCircuitOpen
                    /\ UNCHANGED att
               ELSE /\ pc' = "run_sql_op"
                    /\ att' = 0
                    /\ UNCHANGED <<events, last_err, fail_log>>
    /\ UNCHANGED <<now, sideVars, callerVars, req_tables, sql, allowed_tables, attempt, rows, slow,
                   chunks, check_log, ret_log, gen_log, audit_log, artifact_log>>

\* _execute_fetchmany, were it to fetch every row
fetchall(n, max_rows) == n

\* _execute_fetchmany: fetchmany(size=max_rows) of a result set of n rows
fetchmany(n, max_rows) == Min(n, max_rows)

\* the execution, were only the errors that were retried to the end counted
\* in the breaker
RunSqlOp_retried ==
    /\ pc = "run_sql_op"
    /\ \E outcome \in OpOutcomes :
        /\ Allowed(outcome)
        /\ LET step == async_retry(att, outcome)
           IN  \/ /\ step = "again"
                  /\ att' = att + 1
                  /\ UNCHANGED <<pc, events, last_err, rows, slow, fail_log, ret_log, breakerVars>>
               \/ /\ step = "return"
                  /\ DoRecordSuccess(Session)
                  /\ \E n \in ResultSizes : rows' = fetchmany(n, MAX_ROWS)
                  /\ slow' \in BOOLEAN
                  /\ last_err' = "none"
                  /\ ret_log' = Append(ret_log, [attempt |-> attempt, sql |-> sql])
                  /\ pc' = "after_loop"
                  /\ UNCHANGED <<att, events, fail_log>>
               \/ /\ step = "raise"
                  /\ IF outcome = "fatal" THEN UNCHANGED breakerVars
                     ELSE DoRecordFailure(Session)
                  /\ OnExecutionError(outcome)
                  /\ UNCHANGED <<att, rows, slow, ret_log>>
    /\ UNCHANGED <<now, sideVars, callerVars, req_tables, sql, allowed_tables, attempt, chunks,
                   check_log, run_log, gen_log, audit_log, artifact_log>>

\* lines 159-162: one invocation of the query inside async_retry; on return
\* the rows and the elapsed time are kept and the loop is left
RunSqlOp ==
    /\ pc = "run_sql_op"
    /\ \E outcome \in OpOutcomes :
        /\ Allowed(outcome)
        /\ LET step == async_retry(att, outcome)
           IN  \/ /\ step = "again"
                  /\ att' = att + 1
                  /\ UNCHANGED <<pc, events, last_err, rows, slow, fail_log, ret_log, breakerVars>>
               \/ /\ step = "return"
                  /\ DoRecordSuccess(Session)
                  /\ \E n \in ResultSizes : rows' = fetchmany(n, MAX_ROWS)
                  /\ slow' \in BOOLEAN
                  /\ last_err' = "none"
                  /\ ret_log' = Append(ret_log, [attempt |-> attempt, sql |-> sql])
                  /\ pc' = "after_loop"
                  /\ UNCHANGED <<att, events, fail_log>>
               \/ /\ step = "raise"
                  /\ DoRecordFailure(Session)
                  /\ OnExecutionError(outcome)
                  /\ UNCHANGED <<att, rows, slow, ret_log>>
    /\ UNCHANGED <<now, sideVars, callerVars, req_tables, sql, allowed_tables, attempt, chunks,
                   check_log, run_log, gen_log, audit_log, artifact_log>>

\* lines 172-190: generate_sql with the fix prompt, yield sql retry_rewrite,
\* next iteration of the loop
RepairSql ==
    /\ pc = "repair"
    /\ \/ \E text \in SqlPool :
            /\ sql' = text
            /\ Emit(<<EvSql(text, "retry_rewrite")>>)
            /\ attempt' = attempt + 1
            /\ pc' = "allowlist"
            /\ gen_log' = GenLog("repair", "ok")
            /\ UNCHANGED <<last_err, fail_log>>
       \/ /\ last_err' = "circuit_open"
          /\ Failed("llm_sql", "circuit_open")
          /\ Emit(<<EvError("llm_sql", {})>>)
          /\ pc' = "after_loop"
          /\ gen_log' = GenLog("repair", "circuit_open")
          /\ UNCHANGED <<sql, attempt>>
       \/ /\ Failed("llm_sql", "error")
          /\ pc' = "aborted"
          /\ gen_log' = GenLog("repair", "error")
          /\ UNCHANGED <<sql, attempt, events, last_err>>
    /\ UNCHANGED <<now, sideVars, breakerVars, callerVars, req_tables, allowed_tables, att, rows, slow,
                   chunks, check_log, run_log, ret_log, audit_log, artifact_log>>

\* generate_safety_tips(sql, row_count, elapsed_ms) returns a non-empty list
\* (services/sql_assistant.py); the ORDER BY tip needs a missing LIMIT, which
\* already gives a tip
has_safety_tips(text, row_count, is_slow) ==
    LET s == LowerText(text)
        padded == <<" ">> \o s \o <<" ">>
    IN  \/ Contains(s, <<"s", "e", "l", "e", "c", "t", " ", "*">>)
        \/ ~Contains(padded, <<" ", "w", "h", "e", "r", "e", " ">>)
        \/ ~Contains(padded, <<" ", "l", "i", "m", "i", "t", " ">>)
        \/ row_count >= MAX_ROWS
        \/ is_slow

\* the record of one add_sql_audit call; written = FALSE when the write raised
Audit(success, written) ==
    [sql |-> sql, success |-> success, error |-> last_err, attempt |-> attempt,
     written |-> written]

\* lines 192-197: suggest_sql_fix catches every exception; yield sql_fix
SuggestFix ==
    /\ pc = "after_loop"
    /\ last_err # "none"
    /\ Emit(<<EvPlain("sql_fix")>>)
    /\ pc' = "fail_audit"
    /\ UNCHANGED <<now, sideVars, breakerVars, callerVars, sessionRest>>

\* lines 198-214: add_sql_audit (its failure is swallowed), yield done, return
FailAudit ==
    /\ pc = "fail_audit"
    /\ \E written \in BOOLEAN : audit_log' = Append(audit_log, Audit(FALSE, written))
    /\ Emit(<<EvDone(FALSE)>>)
    /\ pc' = "done"
    /\ UNCHANGED <<now, sideVars, breakerVars, callerVars, req_tables, sql, allowed_tables, attempt,
                   last_err, att, rows, slow, chunks, check_log, run_log, ret_log, gen_log,
                   artifact_log, fail_log>>

\* the steps after the loop, were they reached with last_err set as well
PostProcess_unguarded ==
    /\ pc = "after_loop"
    /\ Emit(<<EvPlain("table")>>
            \o (IF slow THEN <<EvPlain("warning")>> ELSE <<>>)
            \o (IF has_safety_tips(sql, rows, slow) THEN <<EvPlain("sql_safety")>> ELSE <<>>)
            \o <<EvStatus("chart_generation"), EvPlain("chart"),
                 EvStatus("analysis_generation")>>)
    /\ chunks' = 0
    /\ pc' = "analysis"
    /\ UNCHANGED <<now, sideVars, breakerVars, callerVars, req_tables, sql, allowed_tables, attempt,
                   last_err, att, rows, slow, check_log, run_log, ret_log, gen_log, audit_log,
                   artifact_log, fail_log>>

\* lines 216-240: masking, yield table, warning, sql_safety, status, chart,
\* status; none of these awaits
PostProcess ==
    /\ pc = "after_loop"
    /\ last_err = "none"
    /\ Emit(<<EvPlain("table")>>
            \o (IF slow THEN <<EvPlain("warning")>> ELSE <<>>)
            \o (IF has_safety_tips(sql, rows, slow) THEN <<EvPlain("sql_safety")>> ELSE <<>>)
            \o <<EvStatus("chart_generation"), EvPlain("chart"),
                 EvStatus("analysis_generation")>>)
    /\ chunks' = 0
    /\ pc' = "analysis"
    /\ UNCHANGED <<now, sideVars, breakerVars, callerVars, req_tables, sql, allowed_tables, attempt,
                   last_err, att, rows, slow, check_log, run_log, ret_log, gen_log, audit_log,
                   artifact_log, fail_log>>

\* lines 242-244: one chunk of analyze_stream, which catches every exception
AnalysisChunk ==
    /\ pc = "analysis"
    /\ chunks < MaxChunks
    /\ chunks' = chunks + 1
    /\ Emit(<<[EvPlain("analysis") EXCEPT !.note = "delta"]>>)
    /\ UNCHANGED <<now, sideVars, breakerVars, callerVars, pc, req_tables, sql, allowed_tables, attempt,
                   last_err, att, rows, slow, check_log, run_log, ret_log, gen_log, audit_log,
                   artifact_log, fail_log>>

\* lines 245-246: the stream is exhausted, yield the whole analysis
AnalysisDone ==
    /\ pc = "analysis"
    /\ Emit(<<[EvPlain("analysis") EXCEPT !.note = "done"]>>)
    /\ pc' = "suggest"
    /\ UNCHANGED <<now, sideVars, breakerVars, callerVars, sessionRest>>

\* lines 248-250: suggest_sql_improvement catches every exception
SuggestImprovement ==
    /\ pc = "suggest"
    /\ \/ Emit(<<EvPlain("sql_suggest")>>)
       \/ UNCHANGED events
    /\ pc' = "artifact"
    /\ UNCHANGED <<now, sideVars, breakerVars, callerVars, sessionRest>>

\* lines 252-268: add_message_artifact, its failure is swallowed
SaveArtifact ==
    /\ pc = "artifact"
    /\ \E written \in BOOLEAN :
         artifact_log' = Append(artifact_log, [sql |-> sql, written |-> written])
    /\ pc' = "success_audit"
    /\ UNCHANGED <<now, sideVars, breakerVars, callerVars, req_tables, events, sql, allowed_tables,
                   attempt, last_err, att, rows, slow, chunks, check_log, run_log, ret_log, gen_log,
                   audit_log, fail_log>>

\* lines 270-284: add_sql_audit, its failure is swallowed
SuccessAudit ==
    /\ pc = "success_audit"
    /\ \E written \in BOOLEAN : audit_log' = Append(audit_log, Audit(TRUE, written))
    /\ pc' = "final_message"
    /\ UNCHANGED <<now, sideVars, breakerVars, callerVars, req_tables, events, sql, allowed_tables,
                   attempt, last_err, att, rows, slow, chunks, check_log, run_log, ret_log, gen_log,
                   artifact_log, fail_log>>

\* lines 286-288: add_message of the assistant (outside any try), yield done
FinalMessage ==
    /\ pc = "final_message"
    /\ \/ /\ Emit(<<EvDone(TRUE)>>)
          /\ pc' = "done"
       \/ /\ pc' = "aborted"
          /\ UNCHANGED events
    /\ UNCHANGED <<now, sideVars, breakerVars, callerVars, sessionRest>>

(***************************************************************************)
(* OpenAICompatChatClient.chat_stream  (core/llm.py)                       *)
(* _chat_breaker is a CircuitBreaker built with LLM_CB_FAILURES and        *)
(* LLM_CB_RECOVERY_SECONDS, whose values are those of the MySQL breaker.   *)
(***************************************************************************)

\* what the request of one attempt can end with: an error _is_retryable_http
\* accepts, or one it rejects
StreamErrors == {"retryable", "fatal"}

streamRest == <<now, breakerVars, callerVars, sessionVars, textVars, monitorVars, guardVars>>

\* lines 86-95: a consumer starts iterating chat_stream
StreamStart ==
    /\ spc \in {"idle", "returned", "raised"}
    /\ spc' = "attempt"
    /\ s_attempt' = 0
    /\ yielded' = FALSE
    /\ stream_ops' = <<>>
    /\ UNCHANGED <<chat_breaker, streamRest>>

\* the top of the loop, were CircuitOpenError to reach the handler of the
\* other exceptions: it is counted as a failure and, not being retryable,
\* raised
StreamCheck_counted ==
    /\ spc = "attempt"
    /\ LET r == check(chat_breaker, now)
       IN  /\ chat_breaker' = IF r.raised THEN record_failure(r.cb, now) ELSE r.cb
           /\ spc' = IF r.raised THEN "raised" ELSE "streaming"
    /\ yielded' = FALSE
    /\ stream_ops' = Append(stream_ops, "check")
    /\ UNCHANGED <<s_attempt, streamRest>>

\* lines 96-99 and 134-135: the top of the loop; CircuitOpenError is re-raised
StreamCheck ==
    /\ spc = "attempt"
    /\ LET r == check(chat_breaker, now)
       IN  /\ chat_breaker' = r.cb
           /\ spc' = IF r.raised THEN "raised" ELSE "streaming"
    /\ yielded' = FALSE
    /\ stream_ops' = Append(stream_ops, "check")
    /\ UNCHANGED <<s_attempt, streamRest>>

\* lines 129-131: a chunk is yielded
StreamChunk ==
    /\ spc = "streaming"
    /\ ~yielded
    /\ yielded' = TRUE
    /\ UNCHANGED <<chat_breaker, spc, s_attempt, stream_ops, streamRest>>

\* lines 111-113 and 132-133: [DONE] is read or the lines are exhausted
StreamEnd ==
    /\ spc = "streaming"
    /\ chat_breaker' = record_success(chat_breaker)
    /\ stream_ops' = Append(stream_ops, "record_success")
    /\ spc' = "returned"
    /\ UNCHANGED <<s_attempt, yielded, streamRest>>

\* the handler of the other exceptions, were it to retry whether or not a
\* chunk has been yielded
StreamError_replay ==
    /\ spc = "streaming"
    /\ chat_breaker.failure_count < MaxFailures
    /\ chat_breaker' = record_failure(chat_breaker, now)
    /\ stream_ops' = Append(stream_ops, "record_failure")
    /\ \E e \in StreamErrors :
        IF s_attempt >= LLM_MAX_RETRIES \/ e = "fatal"
        THEN spc' = "raised" /\ UNCHANGED s_attempt
        ELSE spc' = "attempt" /\ s_attempt' = s_attempt + 1
    /\ UNCHANGED <<yielded, streamRest>>

\* lines 136-145: the request or the reading of the stream raises
StreamError ==
    /\ spc = "streaming"
    /\ chat_breaker.failure_count < MaxFailures
    /\ chat_breaker' = record_failure(chat_breaker, now)
    /\ stream_ops' = Append(stream_ops, "record_failure")
    /\ \E e \in StreamErrors :
        IF yielded
        THEN spc' = "returned" /\ UNCHANGED s_attempt
        ELSE IF s_attempt >= LLM_MAX_RETRIES \/ e = "fatal"
        THEN spc' = "raised" /\ UNCHANGED s_attempt
        ELSE spc' = "attempt" /\ s_attempt' = s_attempt + 1
    /\ UNCHANGED <<yielded, streamRest>>

(***************************************************************************)
(* OpenAICompatChatClient._post_json and OpenAICompatEmbeddingClient.embed *)
(* (core/llm.py): check(), async_retry, report to the breaker.  _post_json *)
(* shares _chat_breaker with chat_stream; embed has _embed_breaker, built  *)
(* with EMBED_CB_FAILURES and EMBED_CB_RECOVERY_SECONDS, whose values are  *)
(* those of the MySQL breaker.                                             *)
(***************************************************************************)

GuardedClients == {"post_json", "embed"}

EMBED_MAX_RETRIES == 2

\* the retries argument each of them passes to async_retry
retries_of(k) == IF k = "post_json" THEN LLM_MAX_RETRIES ELSE EMBED_MAX_RETRIES

\* the breaker each of them uses
breaker_of(k) == IF k = "post_json" THEN chat_breaker ELSE embed_breaker

\* the breaker of k becomes b
SetBreaker(k, b) ==
    IF k = "post_json"
    THEN chat_breaker' = b /\ UNCHANGED embed_breaker
    ELSE embed_breaker' = b /\ UNCHANGED chat_breaker

\* one iteration of the loop of async_retry with should_retry =
\* _is_retryable_http and the given retries
async_retry_http(retries, a, outcome) ==
    IF outcome = "ok" THEN "return"
    ELSE IF outcome = "fatal" THEN "raise"
    ELSE IF a >= retries THEN "raise"
    ELSE "again"

guardRest == <<now, breakerVars, callerVars, sessionVars, textVars, monitorVars,
               spc, s_attempt, yielded, stream_ops, client>>

\* the check() at the top of _post_json / embed: when it raises,
\* CircuitOpenError leaves the function at once
GuardedCheck(k) ==
    /\ gpc[k] = "idle"
    /\ LET r == check(breaker_of(k), now)
       IN  /\ SetBreaker(k, r.cb)
           /\ IF r.raised
              THEN /\ gres' = [gres EXCEPT ![k] = "circuit_open"]
                   /\ UNCHANGED <<gpc, gatt>>
              ELSE /\ gres' = [gres EXCEPT ![k] = "running"]
                   /\ gpc' = [gpc EXCEPT ![k] = "retrying"]
                   /\ gatt' = [gatt EXCEPT ![k] = 0]
    /\ UNCHANGED guardRest

\* one invocation of _do() inside async_retry and, when the loop is left,
\* the report to the breaker
GuardedAttempt(k) ==
    /\ gpc[k] = "retrying"
    /\ \E outcome \in OpOutcomes :
        /\ outcome = "ok" \/ breaker_of(k).failure_count < MaxFailures
        /\ LET step == async_retry_http(retries_of(k), gatt[k], outcome)
           IN  \/ /\ step = "again"
                  /\ gatt' = [gatt EXCEPT ![k] = gatt[k] + 1]
                  /\ UNCHANGED <<gpc, gres, chat_breaker, embed_breaker>>
               \/ /\ step = "return"
                  /\ SetBreaker(k, record_success(breaker_of(k)))
                  /\ gpc' = [gpc EXCEPT ![k] = "idle"]
                  /\ gres' = [gres EXCEPT ![k] = "return"]
                  /\ UNCHANGED gatt
               \/ /\ step = "raise"
                  /\ SetBreaker(k, record_failure(breaker_of(k), now))
                  /\ gpc' = [gpc EXCEPT ![k] = "idle"]
                  /\ gres' = [gres EXCEPT ![k] = "raise"]
                  /\ UNCHANGED gatt
    /\ UNCHANGED guardRest

(***************************************************************************)
(* validate_readonly_sql and extract_table_names applied to a statement    *)
(***************************************************************************)

\* statements are put together from at most MaxTokens of these pieces
MaxTokens == 3

StmtTokens == {
    <<"s", "e", "l", "e", "c", "t">>,
    <<"W", "I", "T", "H">>,
    <<"U", "p", "d", "a", "t", "e">>,
    <<"d", "e", "l", "e", "t", "e">>,
    <<"u", "p", "d", "a", "t", "e", "_", "a", "t">>,
    <<" ">>,
    <<"x">>,
    <<"(">> }

RECURSIVE TokenTexts(_)
TokenTexts(n) ==
    IF n = 0 THEN {<<>>}
    ELSE LET shorter == TokenTexts(n - 1)
         IN  shorter \cup { t \o k : t \in shorter, k \in StmtTokens }

\* statements given to validate_readonly_sql
StmtDelete == <<"D", "E", "L", "E", "T", "E", " ", "F", "R", "O", "M", " ", "x">>
StmtUpdate == <<"u", "p", "d", "a", "t", "e", " ", "t", " ", "s", "e", "t", " ", "a", "=", "1">>
StmtWith == <<" ", " ", "w", "i", "t", "h", " ", "c", " ", "a", "s", " ", "(", "s", "e", "l", "e", "c", "t", " ", "1", ")", " ", "s", "e", "l", "e", "c", "t", " ", "*", " ", "f", "r", "o", "m", " ", "c">>
ValidateTexts == TokenTexts(MaxTokens) \cup {StmtDelete, StmtUpdate, StmtWith}

\* table references: a name, bare or between grave accents, double quotes or
\* brackets, alone or after a qualifier written in one of those ways
Quoted(name) == { name, <<BT>> \o name \o <<BT>>, <<"\"">> \o name \o <<"\"">>,
                  <<"[">> \o name \o <<"]">> }
NameOrders == <<"o", "r", "d">>
NameDb == <<"d", "b">>
RefForms == Quoted(NameOrders)
                \cup { q \o <<".">> \o r : q \in Quoted(NameDb), r \in Quoted(NameOrders) }

\* statements given to extract_table_names
StmtTwoRefs == <<"F", "R", "O", "M", " ", BT, "o", "r", "d", "e", "r", "s", BT, " ", "o", " ", "J", "O", "I", "N", " ", "\"", "c", "u", "s", "t", "o", "m", "e", "r", "s", "\"", " ", "c">>
StmtBare == <<"F", "R", "O", "M", " ", "o", "r", "d", "e", "r", "s">>
StmtDotted == <<"F", "R", "O", "M", " ", "d", "b", ".", "o", "r", "d", "e", "r", "s">>
StmtQuotedDotted == <<"F", "R", "O", "M", " ", BT, "d", "b", BT, ".", BT, "o", "r", "d", "e", "r", "s", BT>>
StmtSubquery == <<"f", "r", "o", "m", " ", "(", "s", "e", "l", "e", "c", "t", " ", "1", ")", " ", "x">>
\* references that open with "(": a derived table with its alias, bare or
\* quoted, after FROM or after JOIN, and one whose subquery reads a table
StmtSubqueryAlias == <<"S", "E", "L", "E", "C", "T", " ", "*", " ", "F", "R", "O", "M", " ", "(", "S", "E", "L", "E", "C", "T", " ", "1", ")", " ", "t">>
StmtSubqueryQuoted == <<"F", "R", "O", "M", " ", "(", "S", "E", "L", "E", "C", "T", " ", "1", ")", " ", BT, "t", BT>>
StmtSubqueryJoin == <<"F", "R", "O", "M", " ", BT, "a", BT, " ", "J", "O", "I", "N", " ", "(", "s", "e", "l", "e", "c", "t", " ", "1", ")", " ", "\"", "t", "\"">>
StmtSubqueryInner == <<"F", "R", "O", "M", " ", "(", "S", "E", "L", "E", "C", "T", " ", "1", " ", "F", "R", "O", "M", " ", BT, "a", BT, ")", " ", BT, "t", BT>>
SubqueryTexts == {StmtSubquery, StmtSubqueryAlias, StmtSubqueryQuoted, StmtSubqueryJoin,
                  StmtSubqueryInner}
\* the aliases of the derived tables of SubqueryTexts
SubqueryAliases == {<<"t">>, <<"x">>}

ExtractTexts ==
    { kw \o <<" ">> \o r : kw \in {KwFrom, <<"J", "O", "I", "N">>}, r \in RefForms }
        \cup {StmtTwoRefs, StmtBare, StmtDotted, StmtQuotedDotted}
        \cup SubqueryTexts

StmtTexts == ValidateTexts \cup ExtractTexts

textRest == <<now, breakerVars, callerVars, sessionVars, streamVars, monitorVars, guardVars>>

\* validate_readonly_sql(stmt) returns or raises ValueError
Validate ==
    /\ verdict = "unset"
    /\ verdict' = IF validate_readonly_sql(stmt) THEN "accepted" ELSE "raised"
    /\ UNCHANGED <<stmt, extracted, names, textRest>>

\* extract_table_names(stmt) returns its list
Extract ==
    /\ ~extracted
    /\ extracted' = TRUE
    /\ names' = extract_table_names(stmt)
    /\ UNCHANGED <<stmt, verdict, textRest>>

(***************************************************************************)
(* Schema drift monitor  (core/schema_monitor.py)                          *)
(***************************************************************************)

\* the rows of list_datasources, in its order; all of type mysql, with a
\* complete config
MDatasources == <<"d1", "d2">>
DatasourceIds == { MDatasources[k] : k \in 1..Len(MDatasources) }

\* the table names, in sorted order
TableOrder == <<"t1", "t2", "t3">>

\* sorted(list(S))
Sorted(S) == SelectSeq(TableOrder, LAMBDA t : t \in S)
ToSet(q) == { q[k] : k \in 1..Len(q) }

\* live catalogs: table -> what list_tables and fetch_schema_documents report
\* of it (comment, type, columns)
CatA == [t \in {"t1"} |-> "colsA"]
CatB == [t \in {"t1", "t2"} |-> IF t = "t1" THEN "colsB" ELSE "colsC"]
CatD == [t \in {"t1", "t2", "t3"} |-> IF t = "t1" THEN "colsB" ELSE "colsC"]
Catalogs == {CatA, CatB, CatD}

\* how often the process starts, and how far the clock runs
MaxRuns == 2
MaxHours == 2

\* settings.SCHEMA_CHECK_INTERVAL_HOURS, the minimum interval between two
\* checks of a datasource
SCHEMA_CHECK_INTERVAL_HOURS == 2

\* lines 25-39: the canonical map of the tables list_tables names, with the
\* columns fetch_schema_documents reports ([] for a table it does not report)
_serialize_schema(tables, columns_by_table) ==
    [t \in tables |-> IF t \in DOMAIN columns_by_table THEN columns_by_table[t] ELSE "none"]

\* a serialization that keeps the table names only
json_dumps_names(d) ==
    LET keys == Sorted(DOMAIN d)
    IN  [k \in 1..Len(keys) |-> [name |-> keys[k], value |-> ""]]

\* json.dumps of the canonical map: its items in the order of the dict, which
\* is the order of list_tables (ORDER BY TABLE_NAME)
json_dumps(d) ==
    LET keys == Sorted(DOMAIN d)
    IN  [k \in 1..Len(keys) |-> [name |-> keys[k], value |-> d[keys[k]]]]

\* a loading that keeps the names and loses what is stored with them
json_loads_blank(j) ==
    [t \in { j[k].name : k \in 1..Len(j) } |-> ""]

\* json.loads of such a text
json_loads(j) ==
    [t \in { j[k].name : k \in 1..Len(j) } |->
        j[CHOOSE k \in 1..Len(j) : j[k].name = t].value]

\* a diff that compares the key sets only
_diff_schema_keys(old, new) ==
    [added |-> Sorted(DOMAIN new \ DOMAIN old),
     removed |-> Sorted(DOMAIN old \ DOMAIN new),
     changed |-> <<>>]

\* lines 42-51
_diff_schema(old, new) ==
    LET old_set == DOMAIN old
        new_set == DOMAIN new
    IN  [added |-> Sorted(new_set \ old_set),
         removed |-> Sorted(old_set \ new_set),
         changed |-> Sorted({ k \in old_set \cap new_set : old[k] # new[k] })]

\* the targets without the changed tables
_extract_changed_tables_added(added, removed, changed) ==
    Sorted(ToSet(added) \ ToSet(removed))

\* lines 54-58
_extract_changed_tables(added, removed, changed) ==
    Sorted(ToSet(added \o changed) \ ToSet(removed))

\* the stored snapshot of a datasource that has none
NoSnapshot == [exists |-> FALSE, schema_json |-> <<>>, checked_at |-> 0]

\* sqlite_store.get_schema_snapshot: the row of the datasource, or None
get_schema_snapshot(snaps, ds) == snaps[ds]

\* sqlite_store.set_schema_snapshot: the row of the datasource is replaced,
\* checked_at is the time of the call
set_schema_snapshot(snaps, ds, schema_json, t) ==
    [snaps EXCEPT ![ds] = [exists |-> TRUE, schema_json |-> schema_json, checked_at |-> t]]

\* sqlite_store.add_schema_change_log: one record more for the datasource
add_schema_change_log(logs, ds, added, removed, changed) ==
    [logs EXCEPT ![ds] = Append(@, [added |-> added, removed |-> removed, changed |-> changed])]

\* SchemaVectorStore.upsert_schema_docs with the one document of table t
upsert_schema_docs(docs, t, doc) ==
    [x \in DOMAIN docs \cup {t} |-> IF x = t THEN doc ELSE docs[x]]

\* SchemaVectorStore.delete_schema_docs: the documents of the tables are gone
delete_schema_docs(docs, tables) ==
    [x \in DOMAIN docs \ ToSet(tables) |-> docs[x]]

\* the test of line 89, were a missing snapshot to count as an empty one
has_snapshot_always(last) == TRUE

\* line 89, "if last:": a snapshot of the datasource is stored
has_snapshot(last) == last.exists

\* a gate that never holds a check back
interval_not_elapsed_never(last, t) == FALSE

\* lines 66-73: a snapshot exists and less than the interval has passed
interval_not_elapsed(last, t) ==
    /\ last.exists
    /\ SCHEMA_CHECK_INTERVAL_HOURS > 0
    /\ t - last.checked_at < SCHEMA_CHECK_INTERVAL_HOURS

\* a catalog read, were its error counted in the breaker and not raised
with_mysql_retry_quiet(b, ok) ==
    LET c == check(b, now)
    IN  IF c.raised THEN [cb |-> c.cb, raised |-> "circuit_open"]
        ELSE IF ok THEN [cb |-> record_success(c.cb), raised |-> "none"]
        ELSE [cb |-> record_failure(c.cb, now), raised |-> "none"]

\* mysql.py 157-170, _with_mysql_retry around one catalog read whose retries
\* end well (ok) or not: the breaker afterwards, and what is raised
with_mysql_retry(b, ok) ==
    LET c == check(b, now)
    IN  IF c.raised THEN [cb |-> c.cb, raised |-> "circuit_open"]
        ELSE IF ok THEN [cb |-> record_success(c.cb), raised |-> "none"]
        ELSE [cb |-> record_failure(c.cb, now), raised |-> "error"]

\* what can happen to one target table: its documents are fetched and
\* upserted, the fetch raises, the upsert raises
PerTableOutcomes == {"ok", "fetch_error", "upsert_error"}

\* lines 96-102: the targets one after the other; an exception of the fetch
\* (CircuitOpenError too) or of the upsert is swallowed
RECURSIVE reindex_tables(_, _, _, _)
reindex_tables(ts, st, per, current) ==
    IF ts = <<>> THEN st
    ELSE LET t == Head(ts)
             r == with_mysql_retry(st.cb, per[t] # "fetch_error")
             got == r.raised = "none"
             up == got /\ per[t] = "ok"
         IN  reindex_tables(Tail(ts),
                 [cb |-> r.cb,
                  docs |-> IF up THEN upsert_schema_docs(st.docs, t, current[t]) ELSE st.docs,
                  fetch_calls |-> st.fetch_calls \cup {t},
                  upsert_calls |-> IF got THEN st.upsert_calls \cup {t} ELSE st.upsert_calls,
                  failed |-> IF up THEN st.failed ELSE st.failed \cup {t}],
                 per, current)

\* the storage call that raises in a check, if any
StorageFaults == {"none", "get_datasource", "get_schema_snapshot", "add_schema_change_log",
                  "set_schema_snapshot"}

\* how the two reads of the whole catalog end
CatalogReads == {"ok", "list_tables_error", "fetch_schema_documents_error"}

\* the record of a check
NoCheck == [ds |-> "", skipped |-> FALSE, read_catalog |-> FALSE, diffed |-> FALSE,
            prev |-> <<>>, current |-> <<>>,
            added |-> <<>>, removed |-> <<>>, changed |-> <<>>,
            append_called |-> FALSE, fetch_calls |-> {}, upsert_calls |-> {}, failed |-> {},
            purge_calls |-> {}, purge_failed |-> FALSE, swap_called |-> FALSE,
            raised |-> "none", read_raised |-> FALSE]

\* lines 61-109: what a check of datasource ds leaves behind (breaker,
\* snapshots, change logs, documents of the datasource, record of the check)
\* when storage call fault raises, the catalog reads end as read says, the
\* targets fare as per says and delete_schema_docs returns (del) or raises
_check_one_datasource(ds, fault, read, per, del) ==
    LET rec0 == [NoCheck EXCEPT !.ds = ds]
        out(cb, snaps, logs, docs, rec) ==
            [cb |-> cb, snaps |-> snaps, logs |-> logs, docs |-> docs, rec |-> rec]
        last == get_schema_snapshot(snapshots, ds)
        r1 == with_mysql_retry(breaker, read # "list_tables_error")
        r2 == with_mysql_retry(r1.cb, read # "fetch_schema_documents_error")
        current == _serialize_schema(DOMAIN catalog[ds], catalog[ds])
        current_json == json_dumps(current)
        \* lines 78-79 are reached and one of the two reads does not return
        read_raised == check(breaker, now).raised \/ read # "ok"
        rec1 == [rec0 EXCEPT !.read_catalog = TRUE, !.current = current,
                             !.read_raised = read_raised]
        prev == json_loads(last.schema_json)
        d == _diff_schema(prev, current)
        rec2 == [rec1 EXCEPT !.diffed = TRUE, !.prev = prev, !.added = d.added,
                             !.removed = d.removed, !.changed = d.changed]
        nonempty == d.added # <<>> \/ d.removed # <<>> \/ d.changed # <<>>
        logs1 == add_schema_change_log(change_logs, ds, d.added, d.removed, d.changed)
        targets == _extract_changed_tables(d.added, d.removed, d.changed)
        re == reindex_tables(targets,
                  [cb |-> r2.cb, docs |-> index_docs[ds], fetch_calls |-> {},
                   upsert_calls |-> {}, failed |-> {}],
                  per, current)
        purge == d.removed # <<>>
        docs3 == IF purge /\ del THEN delete_schema_docs(re.docs, d.removed) ELSE re.docs
        rec3 == [rec2 EXCEPT !.append_called = TRUE, !.fetch_calls = re.fetch_calls,
                             !.upsert_calls = re.upsert_calls, !.failed = re.failed,
                             !.purge_calls = IF purge THEN ToSet(d.removed) ELSE {},
                             !.purge_failed = purge /\ ~del]
        \* line 109
        swap(cb, logs, docs, rec) ==
            IF fault = "set_schema_snapshot"
            THEN out(cb, snapshots, logs, docs,
                     [rec EXCEPT !.swap_called = TRUE, !.raised = "storage"])
            ELSE out(cb, set_schema_snapshot(snapshots, ds, current_json, mclock), logs, docs,
                     [rec EXCEPT !.swap_called = TRUE])
    IN  IF fault \in {"get_datasource", "get_schema_snapshot"}
        THEN out(breaker, snapshots, change_logs, index_docs[ds],
                 [rec0 EXCEPT !.raised = "storage"])
        ELSE IF interval_not_elapsed(last, mclock)
        THEN out(breaker, snapshots, change_logs, index_docs[ds],
                 [rec0 EXCEPT !.skipped = TRUE])
        ELSE IF r1.raised # "none"
        THEN out(r1.cb, snapshots, change_logs, index_docs[ds],
                 [rec0 EXCEPT !.read_catalog = r1.raised = "error", !.raised = r1.raised,
                              !.read_raised = read_raised])
        ELSE IF r2.raised # "none"
        THEN out(r2.cb, snapshots, change_logs, index_docs[ds],
                 [rec0 EXCEPT !.read_catalog = TRUE, !.raised = r2.raised,
                              !.read_raised = read_raised])
        ELSE IF ~has_snapshot(last)
        THEN swap(r2.cb, change_logs, index_docs[ds], rec1)
        ELSE IF ~nonempty
        THEN swap(r2.cb, change_logs, index_docs[ds], rec2)
        ELSE IF fault = "add_schema_change_log"
        THEN out(r2.cb, snapshots, change_logs, index_docs[ds],
                 [rec2 EXCEPT !.append_called = TRUE, !.raised = "storage"])
        ELSE swap(re.cb, logs1, docs3, rec3)

\* the targets of a check of ds in the current state
check_targets(ds) ==
    IF has_snapshot(snapshots[ds])
    THEN LET d == _diff_schema(json_loads(snapshots[ds].schema_json), catalog[ds])
         IN  ToSet(_extract_changed_tables(d.added, d.removed, d.changed))
    ELSE {}

\* the ways a check of ds can go: any storage call raises and the catalog
\* reads end in any way; when the catalog is read, the targets fare in any
\* way, and so does delete_schema_docs when tables were removed
CheckInputs(ds) ==
    LET ts == check_targets(ds)
        purge == /\ snapshots[ds].exists
                 /\ DOMAIN json_loads(snapshots[ds].schema_json) \ DOMAIN catalog[ds] # {}
    IN  { [fault |-> f, read |-> r, per |-> [t \in ts |-> "ok"], del |-> TRUE] :
              f \in StorageFaults, r \in CatalogReads }
        \cup { [fault |-> f, read |-> "ok", per |-> p, del |-> dl] :
                  f \in {"none", "set_schema_snapshot"},
                  p \in [ts -> PerTableOutcomes],
                  dl \in IF purge THEN BOOLEAN ELSE {TRUE} }

monitorRest == <<now, last_op, fail_run, probes, fail_ds, callerVars, sessionVars, streamVars,
                 textVars, guardVars>>

\* main.py 57-63 and lines 112-117: the process starts (mysql.py 21-25
\* constructs the breaker) and run_schema_check lists the datasources
RunSchemaCheck ==
    /\ mqueue = <<>>
    /\ mruns < MaxRuns
    /\ mruns' = mruns + 1
    /\ breaker' = NewBreaker
    /\ mqueue' = MDatasources
    /\ UNCHANGED <<catalog, snapshots, change_logs, index_docs, mclock, last_check, monitorRest>>

\* lines 118-122: the check of the next datasource; every exception it raises
\* is swallowed and the loop goes on
CheckOneDatasource ==
    /\ mqueue # <<>>
    /\ LET ds == Head(mqueue)
       IN  \E i \in CheckInputs(ds) :
               LET r == _check_one_datasource(ds, i.fault, i.read, i.per, i.del)
               IN  /\ breaker' = r.cb
                   /\ snapshots' = r.snaps
                   /\ change_logs' = r.logs
                   /\ index_docs' = [index_docs EXCEPT ![ds] = r.docs]
                   /\ last_check' = r.rec
    /\ mqueue' = Tail(mqueue)
    /\ UNCHANGED <<catalog, mclock, mruns, monitorRest>>

\* the datasource whose schema changes
ChangingDatasource == "d1"

\* the schema of a datasource changes while the process is down
CatalogChange ==
    /\ mqueue = <<>>
    /\ mruns < MaxRuns
    /\ \E c \in Catalogs :
          /\ c # catalog[ChangingDatasource]
          /\ catalog' = [catalog EXCEPT ![ChangingDatasource] = c]
    /\ UNCHANGED <<breaker, snapshots, change_logs, index_docs, mclock, mruns, mqueue,
                   last_check, monitorRest>>

\* an hour passes
HourTick ==
    /\ mqueue = <<>>
    /\ mclock < MaxHours
    /\ mclock' = mclock + 1
    /\ UNCHANGED <<breaker, catalog, snapshots, change_logs, index_docs, mruns, mqueue,
                   last_check, monitorRest>>

(***************************************************************************)
(* Specifications                                                          *)
(***************************************************************************)

\* the process after import, and a request as it arrives
InitProcess ==
    /\ breaker = NewBreaker
    /\ now = 0
    /\ cpc = [c \in Callers |-> "idle"]
    /\ catt = [c \in Callers |-> 0]
    /\ last_op = NoOp
    /\ fail_run = 0
    /\ probes = {}
    /\ pc = "start"
    /\ req_tables \in RequestedChoices
    /\ events = <<>>
    /\ sql = <<>>
    /\ allowed_tables = {}
    /\ attempt = 0
    /\ last_err = "none"
    /\ att = 0
    /\ rows = 0
    /\ slow = FALSE
    /\ chunks = 0
    /\ check_log = <<>>
    /\ run_log = <<>>
    /\ ret_log = <<>>
    /\ gen_log = <<>>
    /\ audit_log = <<>>
    /\ artifact_log = <<>>
    /\ fail_log = <<>>
    /\ fail_ds = {}
    /\ cops = [c \in Callers |-> <<>>]
    /\ cres = [c \in Callers |-> "none"]
    /\ chat_breaker = NewBreaker
    /\ spc = "idle"
    /\ s_attempt = 0
    /\ yielded = FALSE
    /\ stream_ops = <<>>
    /\ verdict = "unset"
    /\ extracted = FALSE
    /\ names = <<>>
    /\ catalog = [ds \in DatasourceIds |-> CatA]
    /\ change_logs = [ds \in DatasourceIds |-> <<>>]
    /\ index_docs = [ds \in DatasourceIds |-> CatA]
    /\ mclock = 0
    /\ mruns = 0
    /\ mqueue = <<>>
    /\ last_check = NoCheck
    /\ embed_breaker = NewBreaker
    /\ gpc = [k \in GuardedClients |-> "idle"]
    /\ gatt = [k \in GuardedClients |-> 0]
    /\ gres = [k \in GuardedClients |-> "none"]

\* a store in which no snapshot has been taken yet
NoSnapshots == snapshots = [ds \in DatasourceIds |-> NoSnapshot]

Init == InitProcess /\ NoSnapshots /\ stmt = <<>> /\ client = "mysql"

SessionStep ==
    \/ StoreUserMessage
    \/ LoadHistory
    \/ ResolveDatasource
    \/ ListTablesCheck
    \/ ListTablesOp
    \/ ResolveScope
    \/ BuildSchemaContext
    \/ GenerateSql
    \/ ExplainSql
    \/ AllowlistCheck
    \/ RunSqlCheck
    \/ RunSqlOp
    \/ RepairSql
    \/ SuggestFix
    \/ FailAudit
    \/ PostProcess
    \/ AnalysisChunk
    \/ AnalysisDone
    \/ SuggestImprovement
    \/ SaveArtifact
    \/ SuccessAudit
    \/ FinalMessage

\* the session has not left the loop of lines 142-190: only until then does
\* it read the breaker
InLoop == pc \notin {"after_loop", "fail_audit", "analysis", "suggest", "artifact",
                     "success_audit", "final_message", "done", "aborted"}

\* one chat session, and one other task that calls the database while the
\* session can still observe the breaker
Next ==
    \/ SessionStep
    \/ InLoop /\ CallerCheck("c1")
    \/ InLoop /\ CallerAttempt("c1")

Spec == Init /\ [][Next]_vars

\* the tasks that share the breaker, and the clock
InitBreaker == Init /\ req_tables = {}

NextBreaker ==
    \/ \E c \in Callers : CallerCheck(c)
    \/ \E c \in Callers : CallerAttempt(c)
    \/ Tick

BreakerSpec == InitBreaker /\ [][NextBreaker]_vars

\* the guarded functions, one breaker at a time: the process calls either
\* _with_mysql_retry, or chat_stream and _post_json (which share
\* _chat_breaker), or embed
Clients == {"mysql", "chat", "embed"}

InitGuard == InitProcess /\ NoSnapshots /\ stmt = <<>> /\ req_tables = {} /\ client \in Clients

NextGuard ==
    \/ client = "mysql" /\ CallerCheck("c1")
    \/ client = "mysql" /\ CallerAttempt("c1")
    \/ client = "chat" /\ StreamStart
    \/ client = "chat" /\ StreamCheck
    \/ client = "chat" /\ StreamChunk
    \/ client = "chat" /\ StreamEnd
    \/ client = "chat" /\ StreamError
    \/ client = "chat" /\ GuardedCheck("post_json")
    \/ client = "chat" /\ GuardedAttempt("post_json")
    \/ client = "embed" /\ GuardedCheck("embed")
    \/ client = "embed" /\ GuardedAttempt("embed")
    \/ Tick

GuardSpec == InitGuard /\ [][NextGuard]_vars

\* one consumer after another of chat_stream, and the clock
NextStream ==
    \/ StreamStart
    \/ StreamCheck
    \/ StreamChunk
    \/ StreamEnd
    \/ StreamError
    \/ Tick

StreamSpec == InitBreaker /\ [][NextStream]_vars

\* the two functions of a statement, applied to each statement of StmtTexts
InitText == InitProcess /\ NoSnapshots /\ req_tables = {} /\ stmt \in StmtTexts /\ client = "mysql"

NextText ==
    \/ Validate
    \/ Extract

TextSpec == InitText /\ [][NextText]_vars

\* the starts of the process with their schema checks, the changes of the
\* catalogs in between, and the clock
NextMonitor ==
    \/ RunSchemaCheck
    \/ CheckOneDatasource
    \/ CatalogChange
    \/ HourTick

MonitorSpec == InitBreaker /\ [][NextMonitor]_vars

\* the same, for a process whose store holds the snapshots of an earlier
\* life of the process, taken of the catalogs the indexes were built from,
\* one check interval ago
InitRecheck ==
    /\ InitProcess
    /\ stmt = <<>> /\ req_tables = {} /\ client = "mysql"
    /\ snapshots = [ds \in DatasourceIds |->
                        [exists |-> TRUE,
                         schema_json |-> json_dumps(_serialize_schema(DOMAIN CatA, CatA)),
                         checked_at |-> 0 - SCHEMA_CHECK_INTERVAL_HOURS]]

RecheckSpec == InitRecheck /\ [][NextMonitor]_vars

(***************************************************************************)
(* Properties                                                              *)
(***************************************************************************)

IsError(e) == e.event = "error"
IsDone(e) == e.event = "done"
IsAllowlistError(e) == e.event = "error" /\ e.where = "sql_allowlist"
IsExecStatus(e) == e.event = "status" /\ e.stage = "sql_execution"
IsRepairSql(e) == e.event = "sql" /\ e.note = "retry_rewrite"
Repairs == { g \in DOMAIN gen_log : gen_log[g].kind = "repair" }
Ended == pc \in {"done", "aborted"}

\* C1: every call of run_sql, in the first attempt and in every repair
\* attempt, comes after an allowlist check of the same attempt on the same
\* text, which passed, and the tables extracted from the text are a subset of
\* the allowed tables of the session.
C1_AllowlistBeforeRun ==
    \A i \in DOMAIN run_log :
        /\ \E j \in DOMAIN check_log :
              /\ check_log[j].attempt = run_log[i].attempt
              /\ check_log[j].sql = run_log[i].sql
              /\ check_log[j].passed
        /\ UsedTables(run_log[i].sql) \subseteq allowed_tables

\* a regenerated text that names a table has been executed
C1_Witness ==
    \E i \in DOMAIN run_log :
        /\ run_log[i].attempt >= 1
        /\ UsedTables(run_log[i].sql) # {}
        /\ run_log[i].sql # run_log[1].sql

C3_AlwaysOneDone ==
    Ended => /\ Len(SelectSeq(events, IsDone)) = 1
             /\ events[Len(events)].event = "done"

\* C4: every failure of a stage (table listing, scope validation, SQL
\* generation, authorization, execution, repair generation) has its error
\* event, with the where field of that stage.
C4_EveryFailureHasError ==
    /\ Len(SelectSeq(events, IsError)) = Len(fail_log)
    /\ \A k \in DOMAIN fail_log : SelectSeq(events, IsError)[k].where = fail_log[k].where

\* C5: once an execution attempt or a repair generation has raised
\* CircuitOpenError, the session makes no further allowlist check, execution
\* or generation, it is not ended by an exception, and when it is over its
\* last event is done{ok:false}.
C5_CircuitOpenStops ==
    [][ last_err = "circuit_open" =>
          /\ run_log' = run_log
          /\ gen_log' = gen_log
          /\ check_log' = check_log
          /\ last_err' = last_err
          /\ pc' \in {"after_loop", "fail_audit", "done"}
          /\ (pc' = "done" => events'[Len(events')] = EvDone(FALSE)) ]_vars

\* an execution attempt with repair budget left was refused by the breaker
\* and the session is over
C5_Witness ==
    /\ pc = "done"
    /\ last_err = "circuit_open"
    /\ attempt < MAX_SQL_RETRY
    /\ fail_log[Len(fail_log)] = [where |-> "sql_execution", cause |-> "circuit_open"]

\* C6: a session calls run_sql at most MAX_SQL_RETRY + 1 times and makes at
\* most MAX_SQL_RETRY repair generations; a repair generation follows a
\* failed execution of the same attempt that was neither rejected by the
\* allowlist nor refused by the breaker, and the attempt MAX_SQL_RETRY is
\* never repaired.
C6_RepairBudget ==
    /\ Len(run_log) <= MAX_SQL_RETRY + 1
    /\ Cardinality(Repairs) <= MAX_SQL_RETRY
    /\ \A i \in DOMAIN run_log : run_log[i].attempt = i - 1
    /\ \A g \in Repairs :
          /\ gen_log[g].after = "sql_error"
          /\ gen_log[g].attempt < MAX_SQL_RETRY
          /\ \E i \in DOMAIN run_log : run_log[i].attempt = gen_log[g].attempt

\* the budget has been used up: MAX_SQL_RETRY + 1 executions, MAX_SQL_RETRY
\* repairs, and the last execution failed
C6_Witness ==
    /\ pc = "done"
    /\ Len(run_log) = MAX_SQL_RETRY + 1
    /\ Cardinality(Repairs) = MAX_SQL_RETRY
    /\ last_err = "sql_error"

\* the session of C7: the first execution failed with a transient error, the
\* regenerated text passed the allowlist and its execution returned
RepairedOnce ==
    /\ Len(run_log) = 2
    /\ fail_log = << [where |-> "sql_execution", cause |-> "retryable"] >>
    /\ last_err = "none"
    /\ pc \notin {"run_sql", "run_sql_op"}

\* C7: a session whose first execution fails with a transient error and whose
\* regenerated text is executed successfully has, when it is over, the status
\* events sql_execution of attempts 0 and 1, one repair sql event, and
\* done{ok:true} as its last event.
C7_RepairedSessionSucceeds ==
    (Ended /\ RepairedOnce) =>
        /\ Len(SelectSeq(events, IsExecStatus)) = 2
        /\ SelectSeq(events, IsExecStatus)[1].attempt = 0
        /\ SelectSeq(events, IsExecStatus)[2].attempt = 1
        /\ Len(SelectSeq(events, IsRepairSql)) = 1
        /\ events[Len(events)] = EvDone(TRUE)

\* C8: after failure_threshold or more record_failure calls in a row the
\* breaker is open, and a check() made less than recovery_timeout_s after the
\* last recorded failure raises CircuitOpenError.
C8_OpensAndRejects ==
    fail_run >= failure_threshold =>
        /\ last_op.op = "record_failure" => breaker.state = "open"
        /\ (last_op.op = "check" /\ last_op.at - last_op.pre_ts < recovery_timeout_s)
               => (last_op.raised /\ breaker.state = "open")

\* a check() has been refused after the threshold was passed
C8_Witness ==
    /\ fail_run >= failure_threshold
    /\ last_op.op = "check"
    /\ last_op.raised
    /\ last_op.at > last_op.pre_ts

\* C9: a check() on an open breaker whose recovery_timeout_s has elapsed
\* leaves it half_open and does not raise; record_success() leaves the
\* breaker closed with failure_count 0.
C9_RecoveryProbe ==
    /\ (last_op.op = "check" /\ last_op.pre_state = "open"
            /\ last_op.at - last_op.pre_ts >= recovery_timeout_s)
           => (breaker.state = "half_open" /\ ~last_op.raised)
    /\ last_op.op = "record_success"
           => (breaker.failure_count = 0 /\ breaker.state = "closed")

\* the probe admitted by the check() after the timeout has reported success
C9_Witness ==
    /\ last_op.op = "record_success"
    /\ last_op.pre_state = "half_open"
    /\ breaker.state = "closed"

\* C10: while the breaker is half_open at most one call admitted by check()
\* since the timeout elapsed is in flight.
C10_SingleProbe ==
    breaker.state = "half_open" => Cardinality(probes) <= 1

\* C11: the breaker never goes from open to closed in one step: the only
\* operation that closes it, record_success(), never finds it open.
C11_ClosedOnlyViaHalfOpen ==
    last_op.op = "record_success" => last_op.pre_state # "open"

\* C12: under every interleaving of the tasks that share the breaker,
\* failure_count equals the number of record_failure() calls made since the
\* last record_success(): no increment is lost.
C12_CountMatchesFailures ==
    breaker.failure_count = fail_run

\* two failures are counted while another task is between its check() and
\* its report
C12_Witness ==
    /\ last_op.op = "record_failure"
    /\ fail_run >= 2
    /\ \E c \in Callers : c # last_op.who /\ cpc[c] = "retrying"

Last(s) == s[Len(s)]

\* C14: async_retry invokes op() at most retries + 1 times; every invocation
\* but the last raised a retryable error and was followed by one sleep; it
\* returns exactly when the last invocation succeeded, and raises exactly
\* when the last one raised a non-retryable error or a retryable one with
\* the retries used up.
C14_RetryBudget ==
    \A c \in Callers :
        cres[c] \in {"running", "return", "raise"} =>
            /\ Len(cops[c]) <= MYSQL_MAX_RETRIES + 1
            /\ \A i \in 1..(Len(cops[c]) - 1) : cops[c][i] = "retryable"
            /\ cres[c] = "running" =>
                   /\ catt[c] = Len(cops[c])
                   /\ cops[c] # <<>> => Last(cops[c]) = "retryable"
                   /\ Len(cops[c]) <= MYSQL_MAX_RETRIES
            /\ cres[c] = "return" =>
                   /\ Last(cops[c]) = "ok"
                   /\ catt[c] = Len(cops[c]) - 1
            /\ cres[c] = "raise" =>
                   /\ catt[c] = Len(cops[c]) - 1
                   /\ \/ Last(cops[c]) = "fatal"
                      \/ /\ Last(cops[c]) = "retryable"
                         /\ Len(cops[c]) = MYSQL_MAX_RETRIES + 1

\* one call returned after a retry, another raised with the retries used up
C14_Witness ==
    /\ cres["c1"] = "return" /\ Len(cops["c1"]) = MYSQL_MAX_RETRIES + 1
    /\ cres["c2"] = "raise" /\ Last(cops["c2"]) = "retryable"

\* C15: a guarded call whose check() finds the breaker open before
\* recovery_timeout_s has elapsed ends with CircuitOpenError and op() is not
\* invoked at all.
C15_ShortCircuit ==
    \A c \in Callers :
        (/\ last_op.op = "check"
         /\ last_op.who = c
         /\ last_op.pre_state = "open"
         /\ last_op.at - last_op.pre_ts < recovery_timeout_s)
            => /\ last_op.raised
               /\ cres[c] = "circuit_open"
               /\ cops[c] = <<>>
               /\ cpc[c] = "idle"

\* a call was refused some time after the breaker opened
C15_Witness ==
    /\ last_op.op = "check"
    /\ last_op.pre_state = "open"
    /\ now > last_op.pre_ts
    /\ cres[last_op.who] = "circuit_open"
    /\ cops[last_op.who] = <<>>

\* C16: a call fails fast with CircuitOpenError only if a failure counted in
\* the breaker was recorded for a call against the same datasource.
C16_PerDatasourceBreaker ==
    (last_op.op = "check" /\ last_op.raised) => cache_key[last_op.who] \in fail_ds

IsReport(o) == o \in {"record_success", "record_failure"}
IsCheckOp(o) == o = "check"

\* C13: a guarded call that has ended called check() once, first, and then
\* reported exactly one record_success or record_failure, however many
\* attempts it made (none when check() itself raised).
C13_OneCheckOneReport ==
    spc \in {"returned", "raised"} =>
        /\ stream_ops[1] = "check"
        /\ Len(SelectSeq(stream_ops, IsCheckOp)) = 1
        /\ \/ Len(SelectSeq(stream_ops, IsReport)) = 1
           \/ spc = "raised" /\ stream_ops = <<"check">>

\* C17: a call of run_sql with a text that fails validate_readonly_sql raises
\* before the breaker is consulted: the step leaves the breaker and its
\* history as they are and does not enter the retry loop.
C17_ValidatedFirst ==
    [][(run_log' # run_log /\ ~PoolReadOnly[sql])
          => /\ UNCHANGED <<breaker, last_op, fail_run, probes>>
             /\ pc' # "run_sql_op"
             /\ att' = att]_vars

\* run_sql has refused a write statement, the breaker is as it was built
C17_Witness ==
    /\ Len(run_log) = 1
    /\ run_log[1].sql = SqlWrite
    /\ Len(fail_log) = 1
    /\ fail_log[1] = [where |-> "sql_execution", cause |-> "validation"]
    /\ pc = "repair"
    /\ breaker = NewBreaker

\* C19: the rows run_sql returned, whose number is the row_count of the
\* table event, are never more than MAX_ROWS.
C19_RowCap ==
    rows <= MAX_ROWS

\* a result set larger than the cap was cut to MAX_ROWS rows and shown
C19_Witness ==
    /\ rows = MAX_ROWS
    /\ \E i \in 1..Len(events) : events[i].event = "table"

\* the words of a text: its maximal runs of word characters, in lower case
WordStarts(s) == { i \in 1..Len(s) : IsWord(s[i]) /\ (i = 1 \/ ~IsWord(s[i - 1])) }
WordAt(s, i) == LowerText(SubSeq(s, i, WordRunEnd(s, i) - 1))
FirstWord(s) ==
    LET p == SkipSpaces(s, 1)
    IN  IF p <= Len(s) /\ IsWord(s[p]) THEN WordAt(s, p) ELSE <<>>

\* C18: validate_readonly_sql accepts a statement exactly when, leading white
\* space ignored, its first word is SELECT or WITH in any case and none of
\* its words is INSERT, UPDATE, DELETE, DROP, TRUNCATE, ALTER, CREATE,
\* REPLACE, GRANT or REVOKE in any case; the two write examples raise and the
\* WITH example does not.
C18_AcceptsIffReadOnly ==
    verdict # "unset" =>
        /\ (verdict = "accepted") <=>
               (/\ FirstWord(stmt) \in GoodWords
                /\ \A i \in WordStarts(stmt) : WordAt(stmt, i) \notin BadWords)
        /\ stmt \in {StmtDelete, StmtUpdate} => verdict = "raised"
        /\ stmt = StmtWith => verdict = "accepted"

\* the statement that starts with white space and WITH has been accepted
C18_Witness ==
    /\ stmt = StmtWith
    /\ verdict = "accepted"

\* a table reference: the characters of identifiers, quotes, brackets, dots
IsRefChar(c) == IsWord(c) \/ c \in StripChars \/ c = "."

RECURSIVE RefRunEnd(_, _)
RefRunEnd(s, i) ==
    IF i <= Len(s) /\ IsRefChar(s[i]) THEN RefRunEnd(s, i + 1) ELSE i

\* the word FROM or JOIN stands at position i and white space follows
KeywordAt(s, i) ==
    /\ WordBoundary(s, i)
    /\ MatchesAt(s, i, KwFrom) \/ MatchesAt(s, i, KwJoin)
    /\ i + 4 <= Len(s)
    /\ IsSpace(s[i + 4])

\* the names of the reference tokens that follow FROM or JOIN from position
\* i on: the last dotted segment of each, without quotes and brackets
RECURSIVE ReferencedNames(_, _)
ReferencedNames(s, i) ==
    IF i > Len(s) THEN <<>>
    ELSE IF ~KeywordAt(s, i) THEN ReferencedNames(s, i + 1)
    ELSE LET p == SkipSpaces(s, i + 4)
             e == RefRunEnd(s, p)
         IN  IF e > p
             THEN <<StripQuotes(LastSegment(SubSeq(s, p, e - 1)))>> \o ReferencedNames(s, e)
             ELSE ReferencedNames(s, p)

\* C20: extract_table_names returns the name of every table reference that
\* follows FROM or JOIN, whether bare, between grave accents, double quotes
\* or brackets, with or without a qualifier: quotes and brackets stripped,
\* last dotted segment kept.
C20_ExtractsEveryForm ==
    extracted => names = ReferencedNames(stmt, 1)

\* C21: extract_table_names skips a reference after FROM or JOIN that opens
\* with "(": of a derived table it returns neither the subquery nor the
\* alias, and for SELECT * FROM (SELECT 1) t it returns nothing.
C21_SkipsSubquery ==
    (extracted /\ stmt \in SubqueryTexts) =>
        /\ \A k \in 1..Len(names) :
              /\ names[k] \notin SubqueryAliases
              /\ names[k] # <<>> => Head(names[k]) # "("
        /\ stmt = StmtSubqueryAlias => names = <<>>

\* the statement SELECT * FROM (SELECT 1) t has been scanned
C21_Witness ==
    /\ stmt = StmtSubqueryAlias
    /\ extracted
    /\ names = <<>>

\* the base tables of the live catalog whose name does not start with tmp_,
\* and the uploads of the user
PermittedTables == (BaseTables \ {TTmp}) \cup UploadTables

\* C22: the allowed set of a request is a subset of the live base tables that
\* do not start with tmp_ and the uploads of the user; a request whose scope
\* names a table outside that set is rejected before any SQL is generated,
\* checked or run, with an error of scope_validation that lists the invalid
\* tables and then done with ok false.
C22_ScopeWithinCatalog ==
    /\ allowed_tables \subseteq PermittedTables
    /\ req_tables \ PermittedTables # {} =>
          /\ gen_log = <<>>
          /\ check_log = <<>>
          /\ run_log = <<>>
          /\ pc \in {"start", "history", "resolve_datasource", "list_tables",
                     "list_tables_op", "scope", "done", "aborted"}
          /\ (pc = "done" /\ ~\E k \in 1..Len(events) : events[k].where = "schema_tables") =>
                /\ Len(events) >= 2
                /\ events[Len(events) - 1] =
                       EvError("scope_validation", req_tables \ PermittedTables)
                /\ Last(events) = EvDone(FALSE)

\* a request that names a table the catalog does not have, and one that names
\* a tmp_ table, have been rejected
C22_Witness ==
    /\ pc = "done"
    /\ req_tables \in {{TA, TD}, {TTmp}}
    /\ Len(events) >= 2
    /\ events[Len(events) - 1] = EvError("scope_validation", req_tables \ {TA})

\* the tables a check finds new, gone, and different, when the stored map
\* is o and the catalog is n
AddedTables(o, n) == DOMAIN n \ DOMAIN o
RemovedTables(o, n) == DOMAIN o \ DOMAIN n
ChangedTables(o, n) == { k \in DOMAIN o \cap DOMAIN n : o[k] # n[k] }

\* C23: _diff_schema(old, new) returns the sorted lists added = keys(new) -
\* keys(old), removed = keys(old) - keys(new) and changed = the common keys
\* whose values differ; for {t1: colsA} against {t1: colsB, t2: colsC} they
\* are [t2], [] and [t1]; the three are pairwise disjoint, and all empty
\* exactly when old = new.
C23_DiffSchema ==
    last_check.diffed =>
        LET o == last_check.prev
            n == last_check.current
            a == ToSet(last_check.added)
            r == ToSet(last_check.removed)
            c == ToSet(last_check.changed)
        IN  /\ last_check.added = Sorted(AddedTables(o, n))
            /\ last_check.removed = Sorted(RemovedTables(o, n))
            /\ last_check.changed = Sorted(ChangedTables(o, n))
            /\ a \cap r = {} /\ a \cap c = {} /\ r \cap c = {}
            /\ (a = {} /\ r = {} /\ c = {}) <=> (o = n)
            /\ (o = CatA /\ n = CatB) =>
                  /\ last_check.added = <<"t2">>
                  /\ last_check.removed = <<>>
                  /\ last_check.changed = <<"t1">>

\* the diff of {t1: colsA} against {t1: colsB, t2: colsC} has been computed
C23_Witness ==
    /\ last_check.diffed
    /\ last_check.prev = CatA
    /\ last_check.current = CatB

\* the step is the check of the datasource at the head of the queue
IsCheckStep == mqueue # <<>> /\ mqueue' = Tail(mqueue)

C25_SnapshotAlwaysSwapped ==
    last_check.diffed => last_check.swap_called

\* C26: a check of a datasource that has a snapshot less than the minimum
\* interval old is skipped: it reads no catalog (the breaker is not touched)
\* and leaves snapshots, checked_at, change logs and index as they are.
C26_SkippedWithinInterval ==
    [][ (IsCheckStep
           /\ snapshots[Head(mqueue)].exists
           /\ mclock - snapshots[Head(mqueue)].checked_at < SCHEMA_CHECK_INTERVAL_HOURS) =>
          /\ last_check'.skipped \/ last_check'.raised = "storage"
          /\ ~last_check'.read_catalog
          /\ breaker' = breaker
          /\ snapshots' = snapshots
          /\ change_logs' = change_logs
          /\ index_docs' = index_docs ]_vars

\* a check has been skipped one hour after the snapshot was taken
C26_Witness ==
    /\ last_check.skipped
    /\ snapshots[last_check.ds].exists
    /\ mclock - snapshots[last_check.ds].checked_at = 1

\* C27: a check appends a change record exactly when the catalog differs
\* from the stored snapshot; a check that replaces the snapshot stores the
\* catalog it read, and a check of a catalog equal to the stored snapshot
\* appends no record and calls neither upsert nor delete.
C27_Idempotent ==
    [][ IsCheckStep =>
          LET ds == Head(mqueue)
              rec == last_check'
              differs == /\ snapshots[ds].exists
                         /\ json_loads(snapshots[ds].schema_json) # catalog[ds]
          IN  /\ rec.append_called => differs
              /\ (rec.diffed /\ differs) => rec.append_called
              /\ change_logs'[ds] # change_logs[ds] => differs
              /\ Len(change_logs'[ds]) <= Len(change_logs[ds]) + 1
              /\ ~differs =>
                    /\ rec.fetch_calls = {}
                    /\ rec.upsert_calls = {}
                    /\ rec.purge_calls = {}
                    /\ change_logs' = change_logs
                    /\ index_docs' = index_docs
              /\ (rec.swap_called /\ rec.raised = "none") =>
                    /\ snapshots'[ds].exists
                    /\ json_loads(snapshots'[ds].schema_json) = catalog[ds] ]_vars

\* a check of an unchanged catalog, two hours after the snapshot was taken,
\* has computed an empty diff and appended nothing
C27_Witness ==
    /\ last_check.ds = "d1"
    /\ last_check.diffed
    /\ last_check.prev = last_check.current
    /\ ~last_check.append_called
    /\ last_check.swap_called
    /\ change_logs["d1"] = <<>>

\* C28: no check of a datasource is refused with CircuitOpenError: in a run
\* the breaker starts closed and a check reads the catalog before anything of
\* its own can fail, so such a refusal comes from the failures counted while
\* other datasources were checked.
C28_ChecksIndependent ==
    last_check.ds # "" => last_check.raised # "circuit_open"

\* the place of an event in the order table, chart, analysis, done
StageRank(e) ==
    IF e.event = "table" THEN 1
    ELSE IF e.event = "chart" THEN 2
    ELSE IF e.event = "analysis" THEN 3
    ELSE IF e.event = "done" THEN 4
    ELSE 0

\* the sql events of a sequence of events
SqlEvents(ev) == SelectSeq(ev, LAMBDA e : e.event = "sql")

\* C29: the events are handed over in the order of the stages, each before
\* the work that follows it: when run_sql of attempt k is called the last
\* event handed over is status{sql_execution, attempt k}; when a text is
\* checked against the allowlist or run, the last sql event handed over
\* carries that text; no table, chart or analysis event follows an event of
\* a later one of these stages, done follows them all and is the last event.
C29_StageOrder ==
    [][ /\ run_log' # run_log =>
              /\ events # <<>>
              /\ Last(events).event = "status"
              /\ Last(events).stage = "sql_execution"
              /\ Last(events).attempt = Last(run_log').attempt
              /\ SqlEvents(events) # <<>>
              /\ Last(SqlEvents(events)).sql = Last(run_log').sql
        /\ check_log' # check_log =>
              /\ SqlEvents(events) # <<>>
              /\ Last(SqlEvents(events)).sql = Last(check_log').sql
        /\ \A j \in (Len(events) + 1)..Len(events') :
              /\ \A i \in 1..(j - 1) :
                    /\ events'[i].event # "done"
                    /\ StageRank(events'[j]) # 0 => StageRank(events'[i]) <= StageRank(events'[j])
              /\ events'[j] = EvDone(TRUE) =>
                    \A n \in 1..3 : \E i \in 1..(j - 1) : StageRank(events'[i]) = n ]_vars

\* a session whose first text failed has run the rewritten text as attempt 1
\* and ended with done after table, chart and analysis
C29_Witness ==
    /\ pc = "done"
    /\ Last(events) = EvDone(TRUE)
    /\ Len(run_log) = 2
    /\ Last(run_log).attempt = 1

\* C30: a step of the session that only writes to the store (conversation
\* upsert and user-message insert, artifact write, audit write, final
\* assistant-message insert) goes on in the same way whether the write
\* succeeds or fails: it never ends the session without its events.
C30_PersistenceInvisible ==
    [][ (pc \in {"start", "artifact", "fail_audit", "success_audit", "final_message"})
            => (pc' # "aborted") ]_vars

\* C31: when the session has ended with done, every run_sql call it made
\* (one per attempt that passed the allowlist check) has exactly one audit
\* write of its own, carrying the text and the attempt of that call.
C31_AuditPerExecution ==
    pc = "done" =>
        \A i \in 1..Len(run_log) :
            Cardinality({ j \in 1..Len(audit_log) :
                            /\ audit_log[j].sql = run_log[i].sql
                            /\ audit_log[j].attempt = run_log[i].attempt }) = 1

\* the relation between the state of a breaker and its count
CountFitsState(b) ==
    /\ b.failure_count >= 0
    /\ b.state = "closed" => b.failure_count < failure_threshold
    /\ b.state \in {"open", "half_open"} => b.failure_count >= failure_threshold

\* C32: after every step the breaker is closed with a count below the
\* threshold or open / half_open with a count at or above it, the count is
\* never negative, and a step that lowers the count is a record_success()
\* that sets it to 0.
C32_CountFitsState ==
    [][ /\ CountFitsState(breaker')
        /\ (breaker'.failure_count < breaker.failure_count)
               => (breaker'.failure_count = 0 /\ last_op'.op = "record_success") ]_vars

\* a half_open breaker whose count went past the threshold before it opened,
\* because a task admitted earlier reported its failure late
C32_Witness ==
    /\ breaker.state = "half_open"
    /\ breaker.failure_count > failure_threshold
    /\ last_op.op = "check"

\* C33: a record_failure() that finds the breaker half_open leaves it open
\* with the count still at or above the threshold and the last failure time
\* set to the time of the call; and a step that takes the breaker from open to
\* half_open happens only when recovery_timeout_s has passed since that time.
C33_HalfOpenFailureReopens ==
    [][ /\ (breaker.state = "half_open" /\ fail_run' = fail_run + 1)
            => /\ breaker'.state = "open"
               /\ breaker'.failure_count >= failure_threshold
               /\ breaker'.last_failure_ts = now
        /\ (breaker.state = "open" /\ breaker'.state = "half_open")
            => now - breaker.last_failure_ts >= recovery_timeout_s ]_vars

\* a probe has reported its failure: the breaker is open again and the last
\* failure time has moved on to the time of that report
C33_Witness ==
    /\ last_op.op = "record_failure"
    /\ last_op.pre_state = "half_open"
    /\ breaker.state = "open"
    /\ breaker.last_failure_ts = now
    /\ now > last_op.pre_ts

\* check() raises on this breaker at this time
Rejecting(b) == b.state = "open" /\ now - b.last_failure_ts < recovery_timeout_s

\* C34: a call of _with_mysql_retry, chat_stream, _post_json or embed that
\* finds its breaker open before the recovery timeout ends with
\* CircuitOpenError and leaves the breaker as it was: state, failure_count
\* and last failure time are unchanged.
C34_FailFastLeavesBreaker ==
    [][ /\ (Rejecting(breaker) /\ CallerCheck("c1"))
            => (breaker' = breaker /\ cres'["c1"] = "circuit_open")
        /\ (Rejecting(chat_breaker) /\ StreamCheck)
            => (chat_breaker' = chat_breaker /\ spc' = "raised")
        /\ (Rejecting(chat_breaker) /\ GuardedCheck("post_json"))
            => (chat_breaker' = chat_breaker /\ gres'["post_json"] = "circuit_open")
        /\ (Rejecting(embed_breaker) /\ GuardedCheck("embed"))
            => (embed_breaker' = embed_breaker /\ gres'["embed"] = "circuit_open") ]_vars

\* chat_stream and _post_json have both been refused by _chat_breaker some
\* time after the failure that opened it
C34_Witness ==
    /\ chat_breaker.state = "open"
    /\ now > chat_breaker.last_failure_ts
    /\ now - chat_breaker.last_failure_ts < recovery_timeout_s
    /\ spc = "raised"
    /\ stream_ops = <<"check">>
    /\ gres["post_json"] = "circuit_open"

\* the executions of the session that ended with an error of the database,
\* retryable or not
QueryFailures ==
    { i \in DOMAIN fail_log :
        fail_log[i].where = "sql_execution" /\ fail_log[i].cause \in {"retryable", "fatal"} }

\* C35: every execution of the session that ends with a database error,
\* retryable or not, adds one to failure_count of the shared breaker; and
\* when MAX_SQL_RETRY + 1 executions of the session have failed that way and
\* no other call has returned in the meantime, the breaker is open
\* (failure_threshold <= MAX_SQL_RETRY + 1) and a check() made at that time
\* raises CircuitOpenError.
C35_QueryErrorsTrip ==
    [][ /\ (Cardinality(QueryFailures') = Cardinality(QueryFailures) + 1)
            => (breaker'.failure_count = breaker.failure_count + 1)
        /\ (/\ failure_threshold <= MAX_SQL_RETRY + 1
            /\ Cardinality(QueryFailures') = MAX_SQL_RETRY + 1
            /\ cres'["c1"] \in {"none", "circuit_open"})
            => (breaker'.state = "open" /\ check(breaker', now').raised) ]_vars

\* three executions of one session have failed, the last one with an error
\* that is not retryable, and nothing else has used the breaker since
C35_Witness ==
    /\ Cardinality(QueryFailures) = MAX_SQL_RETRY + 1
    /\ Last(fail_log).cause = "fatal"
    /\ breaker.state = "open"
    /\ breaker.failure_count = failure_threshold
    /\ last_op.op = "record_failure"
    /\ last_op.who = Session

HasEvent(name) == \E i \in DOMAIN events : events[i].event = name
HasDone(ok) == \E i \in DOMAIN events : events[i] = EvDone(ok)

\* C36: a table event or done{ok:true} has been emitted only if a run_sql
\* call of the session has returned, on a text and in an attempt whose
\* allowlist check passed; the successful audit record and the artifact
\* carry the text of that call; and a session that has emitted
\* done{ok:false} has emitted no table, chart or analysis event.
C36_SuccessNeedsExecution ==
    /\ (HasEvent("table") \/ HasDone(TRUE)) =>
          /\ Len(ret_log) = 1
          /\ \E j \in DOMAIN check_log :
                /\ check_log[j].passed
                /\ check_log[j].attempt = ret_log[1].attempt
                /\ check_log[j].sql = ret_log[1].sql
          /\ UsedTables(ret_log[1].sql) \subseteq allowed_tables
    /\ \A i \in DOMAIN audit_log :
          audit_log[i].success => (ret_log # <<>> /\ audit_log[i].sql = ret_log[1].sql)
    /\ \A i \in DOMAIN artifact_log :
          ret_log # <<>> /\ artifact_log[i].sql = ret_log[1].sql
    /\ HasDone(FALSE) =>
          ~(HasEvent("table") \/ HasEvent("chart") \/ HasEvent("analysis"))

\* a session whose first execution failed has ended with done{ok:true}: the
\* audit record and the artifact carry the rewritten text that was executed
C36_Witness ==
    /\ HasDone(TRUE)
    /\ HasEvent("table")
    /\ Len(run_log) = 2
    /\ ret_log = <<run_log[2]>>
    /\ run_log[2].sql # run_log[1].sql
    /\ Len(audit_log) = 1 /\ audit_log[1].success /\ audit_log[1].sql = run_log[2].sql
    /\ Len(artifact_log) = 1 /\ artifact_log[1].sql = run_log[2].sql

\* C37: a check of a datasource that has no stored snapshot computes no diff,
\* appends no change record and makes no fetch, upsert or delete for the
\* retrieval index, whatever the catalog holds; when nothing raises it stores
\* the current catalog as the snapshot, checked at the time of the check.
C37_FirstCheckStoresOnly ==
    [][ (IsCheckStep /\ ~snapshots[Head(mqueue)].exists) =>
          LET ds == Head(mqueue)
              rec == last_check'
          IN  /\ ~rec.diffed
              /\ ~rec.append_called
              /\ rec.fetch_calls = {} /\ rec.upsert_calls = {} /\ rec.purge_calls = {}
              /\ change_logs' = change_logs
              /\ index_docs' = index_docs
              /\ rec.raised = "none" =>
                    /\ rec.swap_called
                    /\ snapshots'[ds].exists
                    /\ json_loads(snapshots'[ds].schema_json) = catalog[ds]
                    /\ snapshots'[ds].checked_at = mclock ]_vars

\* the first check of d1 found a catalog other than the one its index was
\* built from: the snapshot holds it, the index and the change log do not
C37_Witness ==
    /\ last_check.ds = "d1"
    /\ last_check.swap_called
    /\ ~last_check.diffed
    /\ snapshots["d1"].exists
    /\ json_loads(snapshots["d1"].schema_json) = catalog["d1"]
    /\ catalog["d1"] # CatA
    /\ index_docs["d1"] = CatA
    /\ change_logs["d1"] = <<>>

\* C38: a check in which list_tables or fetch_schema_documents raises (an
\* error of the database, or CircuitOpenError) ends there: the snapshot with
\* its checked_at, the change log and the retrieval index are as before, so
\* a difference between snapshot and catalog is still there for the next
\* check.
C38_ReadFailureChangesNothing ==
    [][ (IsCheckStep /\ last_check'.read_raised) =>
          LET ds == Head(mqueue)
              rec == last_check'
          IN  /\ rec.raised \in {"error", "circuit_open"}
              /\ ~rec.diffed /\ ~rec.append_called /\ ~rec.swap_called
              /\ rec.fetch_calls = {} /\ rec.upsert_calls = {} /\ rec.purge_calls = {}
              /\ snapshots' = snapshots
              /\ change_logs' = change_logs
              /\ index_docs' = index_docs
              /\ (snapshots[ds].exists /\ json_loads(snapshots[ds].schema_json) # catalog[ds])
                    => json_loads(snapshots'[ds].schema_json) # catalog'[ds] ]_vars

\* the read of the catalog of d1 has failed with an error of the database
\* while its snapshot was out of date, and the snapshot still is
C38_Witness ==
    /\ last_check.ds = "d1"
    /\ last_check.read_raised
    /\ last_check.raised = "error"
    /\ snapshots["d1"].exists
    /\ json_loads(snapshots["d1"].schema_json) # catalog["d1"]

\* what the stored snapshot, the live catalog and the retrieval index of a
\* datasource hold for a table
StoredEntry(ds, t) ==
    LET j == snapshots[ds].schema_json
        at == { k \in 1..Len(j) : j[k].name = t }
    IN  IF at = {} THEN "absent" ELSE j[CHOOSE k \in at : TRUE].value
LiveEntry(ds, t) == IF t \in DOMAIN catalog[ds] THEN catalog[ds][t] ELSE "absent"
IndexEntry(ds, t) == IF t \in DOMAIN index_docs[ds] THEN index_docs[ds][t] ELSE "absent"

\* the snapshot has the live entry of the table and the index has not
Stale(ds, t) ==
    /\ snapshots[ds].exists
    /\ StoredEntry(ds, t) = LiveEntry(ds, t)
    /\ IndexEntry(ds, t) # LiveEntry(ds, t)

\* C39: once the snapshot of a datasource holds the live entry of a table
\* while the index does not (the fetch or upsert of the table failed, or the
\* purge of a removed table failed, in the check that stored the snapshot),
\* a check makes no fetch, upsert or purge for that table and leaves it so:
\* the index stays out of step until the catalog entry itself changes.
C39_FailedReindexNotRetried ==
    [][ IsCheckStep =>
          \A d \in DatasourceIds : \A t \in ToSet(TableOrder) :
              (d = Head(mqueue) /\ Stale(d, t)) =>
                  /\ t \notin last_check'.fetch_calls
                  /\ t \notin last_check'.upsert_calls
                  /\ t \notin last_check'.purge_calls
                  /\ Stale(d, t)' ]_vars

\* a check of d1 found a difference and recorded it, the index did not get
\* the new entry of one of the tables, and the next check of d1 found no
\* difference and left the index as it was
C39_Witness ==
    /\ last_check.ds = "d1"
    /\ last_check.diffed
    /\ last_check.prev = last_check.current
    /\ last_check.swap_called
    /\ last_check.raised = "none"
    /\ Len(change_logs["d1"]) = 1
    /\ \E t \in ToSet(change_logs["d1"][1].added) \cup ToSet(change_logs["d1"][1].changed)
                 \cup ToSet(change_logs["d1"][1].removed) : Stale("d1", t)

\* the call of chat_stream reports a failure to its breaker in this step
ReportsFailure ==
    /\ Len(stream_ops') = Len(stream_ops) + 1
    /\ Last(stream_ops') = "record_failure"

\* C40: chat_stream goes from a failed request to another attempt only when
\* no chunk of the failed attempt was yielded and fewer than LLM_MAX_RETRIES
\* retries were made; a failure after a chunk was yielded ends the call with
\* a plain return, so a call in which a chunk was yielded makes no further
\* attempt; every attempt begins with check() and every failed request adds
\* one failure to the breaker.
C40_NoReplayAfterYield ==
    [][ /\ (spc = "streaming" /\ spc' = "attempt")
            => /\ ~yielded
               /\ s_attempt < LLM_MAX_RETRIES
               /\ s_attempt' = s_attempt + 1
               /\ ReportsFailure
        /\ (yielded /\ spc' = "attempt") => stream_ops' = <<>>
        /\ (yielded /\ ReportsFailure) => spc' = "returned"
        /\ (spc # "streaming" /\ spc' = "streaming")
            => (Len(stream_ops') = Len(stream_ops) + 1 /\ Last(stream_ops') = "check")
        /\ ReportsFailure
            => chat_breaker'.failure_count = chat_breaker.failure_count + 1
        /\ s_attempt' <= LLM_MAX_RETRIES ]_vars

\* the first request failed before any chunk and was retried; the second
\* attempt yielded a chunk and then failed, and the call returned
C40_Witness ==
    /\ spc = "returned"
    /\ yielded
    /\ s_attempt = 1
    /\ stream_ops = <<"check", "record_failure", "check", "record_failure">>

====
